---- MODULE Spec2Model ----
(***************************************************************************)
(* Model of the prompt-response parser of the virtual try-on server:       *)
(* parseMultiplePrompts and createPromptVariation (src/unnamed/part_000).  *)
(*                                                                         *)
(* Strings are sequences of tokens.  A token is one character ("#", ":",   *)
(* ".", "*", " ", "\n", a digit, a letter) or a fixed run of letters that   *)
(* no regular expression of the parser can split or match in part: a       *)
(* keyword ("Prompt", "Image", "for", "AI", "Editing"), a long word of a   *)
(* known number of letters, or the name / body of a variation template.    *)
(* Width gives the number of characters of a token, so StrLen is the       *)
(* JavaScript .length of the string the tokens spell.                      *)
(***************************************************************************)
EXTENDS Integers, Sequences, FiniteSets, TLC

\* ---------------------------------------------------------------- bounds
MaxPieces == 2      \* free texts: at most this many pieces concatenated
MaxBlocks == 3      \* block documents: at most this many delimited blocks

\* ------------------------------------------------------ program constants
MinPromptLength == 100   \* prompt.length > 100
MaxImageCount == 5       \* imageCount is clamped to 1..5
PoolSize == 10           \* creativeVariations.length

\* ------------------------------------------------------------ characters
Ws == {" ", "\n"}
DigitChars == <<"0", "1", "2", "3", "4", "5", "6", "7", "8", "9">>
Digits == {DigitChars[k] : k \in 1..10}

UpperTokens ==
  [t \in {"Prompt", "Image", "AI", "Editing", "Y", "WA"} |->
     CASE t = "Prompt" -> "prompt" [] t = "Image" -> "image" [] t = "AI" -> "ai"
       [] t = "Editing" -> "editing" [] t = "Y" -> "y" [] t = "WA" -> "wa"]

\* names and bodies of the ten templates of creativeVariations; the name is
\* the text before " ${index}", the body the text after "${index}: "
TemplateNameWidth == <<18, 20, 14, 20, 24, 17, 22, 15, 19, 27>>
TemplateBodyWidth == <<430, 368, 384, 345, 356, 349, 343, 326, 332, 336>>
TemplateNames == <<"TN0", "TN1", "TN2", "TN3", "TN4", "TN5", "TN6", "TN7", "TN8", "TN9">>
TemplateBodies == <<"TB0", "TB1", "TB2", "TB3", "TB4", "TB5", "TB6", "TB7", "TB8", "TB9">>
TemplateNamesLower == <<"tn0", "tn1", "tn2", "tn3", "tn4", "tn5", "tn6", "tn7", "tn8", "tn9">>
TemplateBodiesLower == <<"tb0", "tb1", "tb2", "tb3", "tb4", "tb5", "tb6", "tb7", "tb8", "tb9">>

\* String.prototype.toLowerCase on one token
Lower(t) ==
  IF t \in DOMAIN UpperTokens THEN UpperTokens[t]
  ELSE IF \E k \in 1..PoolSize : TemplateNames[k] = t
    THEN TemplateNamesLower[CHOOSE k \in 1..PoolSize : TemplateNames[k] = t]
  ELSE IF \E k \in 1..PoolSize : TemplateBodies[k] = t
    THEN TemplateBodiesLower[CHOOSE k \in 1..PoolSize : TemplateBodies[k] = t]
  ELSE t

\* number of characters a token stands for
Width(t) ==
  LET l == Lower(t) IN
  CASE l = "prompt" -> 6 [] l = "image" -> 5 [] l = "for" -> 3 [] l = "ai" -> 2
    [] l = "editing" -> 7
    [] l = "wa" -> 101 [] l = "wb" -> 101 [] l = "c100" -> 100
    [] l = "c98" -> 98 [] l = "c97" -> 97
    [] \E k \in 1..PoolSize : TemplateNamesLower[k] = l ->
         TemplateNameWidth[CHOOSE k \in 1..PoolSize : TemplateNamesLower[k] = l]
    [] \E k \in 1..PoolSize : TemplateBodiesLower[k] = l ->
         TemplateBodyWidth[CHOOSE k \in 1..PoolSize : TemplateBodiesLower[k] = l]
    [] OTHER -> 1

\* ------------------------------------------------------ string primitives
MinOf(S) == CHOOSE x \in S : \A y \in S : x <= y
MaxOf(S) == CHOOSE x \in S : \A y \in S : x >= y

RECURSIVE StrLen(_)
StrLen(s) == IF s = <<>> THEN 0 ELSE Width(Head(s)) + StrLen(Tail(s))

\* s.substring(lo-1, hi-1): the tokens at positions lo .. hi-1
SubStr(s, lo, hi) == SubSeq(s, lo, hi - 1)

\* String.prototype.trim
Trim(s) ==
  LET NonWs == {k \in 1..Len(s) : s[k] \notin Ws}
  IN IF NonWs = {} THEN <<>> ELSE SubSeq(s, MinOf(NonWs), MaxOf(NonWs))

ToLowerCase(s) == [k \in 1..Len(s) |-> Lower(s[k])]

\* s.replace(/\s+/g, ' ')
RECURSIVE CollapseFrom(_, _)
CollapseFrom(s, p) ==
  IF p > Len(s) THEN <<>>
  ELSE IF s[p] \in Ws
    THEN IF p > 1 /\ s[p - 1] \in Ws THEN CollapseFrom(s, p + 1)
         ELSE <<" ">> \o CollapseFrom(s, p + 1)
  ELSE <<s[p]>> \o CollapseFrom(s, p + 1)
CollapseWhitespace(s) == CollapseFrom(s, 1)

\* mutant: the normalized form keeps the case
NormalizedPromptKeepCase(s) == Trim(CollapseWhitespace(s))

\* a chained call x.f(): x is computed once, then f is applied to its value
Then(F(_), x) == CHOOSE r \in {F(v) : v \in {x}} : TRUE

\* prompt.toLowerCase().replace(/\s+/g, ' ').trim()
NormalizedPrompt(s) == Then(Trim, Then(CollapseWhitespace, Then(ToLowerCase, s)))

\* ------------------------------------------------- regular expressions
\* position after a greedy \s* / \d* that starts at p
SkipWs(s, p) == MinOf({q \in p..Len(s) + 1 : q = Len(s) + 1 \/ s[q] \notin Ws})
SkipDigits(s, p) == MinOf({q \in p..Len(s) + 1 : q = Len(s) + 1 \/ s[q] \notin Digits})

\* the token at p is t, compared as the i flag compares
At(s, p, t) == p >= 1 /\ p <= Len(s) /\ Lower(s[p]) = t

\* Each matcher returns the position after the match that starts at p, 0 if
\* the pattern does not match at p.
\* /Prompt\s*\d*:/i
PromptHeaderEnd(s, p) ==
  IF At(s, p, "prompt")
  THEN LET q == SkipDigits(s, SkipWs(s, p + 1)) IN IF At(s, q, ":") THEN q + 1 ELSE 0
  ELSE 0

\* /###\s*Prompt\s*\d*:/i
HashPromptHeaderEnd(s, p) ==
  IF At(s, p, "#") /\ At(s, p + 1, "#") /\ At(s, p + 2, "#")
  THEN PromptHeaderEnd(s, SkipWs(s, p + 3))
  ELSE 0

\* /Image\s*\d*:/i
ImageHeaderEnd(s, p) ==
  IF At(s, p, "image")
  THEN LET q == SkipDigits(s, SkipWs(s, p + 1)) IN IF At(s, q, ":") THEN q + 1 ELSE 0
  ELSE 0

\* /Prompt\s*for\s*AI\s*Image\s*Editing/i
EditingHeaderEnd(s, p) ==
  IF At(s, p, "prompt")
  THEN LET a == SkipWs(s, p + 1) IN
    IF At(s, a, "for")
    THEN LET b == SkipWs(s, a + 1) IN
      IF At(s, b, "ai")
      THEN LET c == SkipWs(s, b + 1) IN
        IF At(s, c, "image")
        THEN LET d == SkipWs(s, c + 1) IN IF At(s, d, "editing") THEN d + 1 ELSE 0
        ELSE 0
      ELSE 0
    ELSE 0
  ELSE 0

\* the first three alternatives of the header pattern, in order
NumberedHeaderEnd(s, p) ==
  IF HashPromptHeaderEnd(s, p) # 0 THEN HashPromptHeaderEnd(s, p)
  ELSE IF PromptHeaderEnd(s, p) # 0 THEN PromptHeaderEnd(s, p)
  ELSE ImageHeaderEnd(s, p)

\* the lookahead (?=###\s*Prompt\s*\d*:|Prompt\s*\d*:|Image\s*\d*:|Prompt\s*for\s*AI\s*Image\s*Editing|$)
HeaderLookahead(s, q) ==
  \/ q = Len(s) + 1
  \/ NumberedHeaderEnd(s, q) # 0
  \/ EditingHeaderEnd(s, q) # 0

\* one match of the structured pattern of line 484 at p: a numbered header
\* directly followed by a header or the end, or the editing header with the
\* lazy [^]*? run up to the next header or the end
StructuredMatchEnd(s, p) ==
  LET h == NumberedHeaderEnd(s, p)
      e == EditingHeaderEnd(s, p)
  IN IF h # 0 /\ HeaderLookahead(s, h) THEN h
     ELSE IF e # 0 THEN MinOf({q \in e..Len(s) + 1 : HeaderLookahead(s, q)})
     ELSE 0

\* promptText.match(/.../gi) as the list of ranges <<lo, hi>> (hi exclusive)
RECURSIVE StructuredFrom(_, _)
StructuredFrom(s, p) ==
  IF p > Len(s) THEN <<>>
  ELSE LET e == StructuredMatchEnd(s, p) IN
    IF e # 0 THEN <<<<p, e>>>> \o StructuredFrom(s, e) ELSE StructuredFrom(s, p + 1)
StructuredPrompts(s) == StructuredFrom(s, 1)

\* .replace(/^(?:###\s*Prompt\s*\d*:|Prompt\s*\d*:|Image\s*\d*:|Prompt\s*for\s*AI\s*Image\s*Editing[^]*?)/gi, '')
StripHeader(s) ==
  LET h == IF NumberedHeaderEnd(s, 1) # 0 THEN NumberedHeaderEnd(s, 1)
           ELSE EditingHeaderEnd(s, 1)
  IN IF h # 0 THEN SubStr(s, h, Len(s) + 1) ELSE s

\* .replace(/\*\*(.*?)\*\*/g, '$1')
RECURSIVE StripBoldFrom(_, _)
StripBoldFrom(s, p) ==
  IF p > Len(s) THEN <<>>
  ELSE LET closers == {q \in p + 2..Len(s) - 1 :
                         /\ s[q] = "*" /\ s[q + 1] = "*"
                         /\ \A k \in p + 2..q - 1 : s[k] # "\n"}
       IN IF At(s, p, "*") /\ At(s, p + 1, "*") /\ closers # {}
          THEN SubStr(s, p + 2, MinOf(closers)) \o StripBoldFrom(s, MinOf(closers) + 2)
          ELSE <<s[p]>> \o StripBoldFrom(s, p + 1)
StripBold(s) == StripBoldFrom(s, 1)

\* .replace(/\*(.*?)\*/g, '$1')
RECURSIVE StripItalicFrom(_, _)
StripItalicFrom(s, p) ==
  IF p > Len(s) THEN <<>>
  ELSE LET closers == {q \in p + 1..Len(s) :
                         s[q] = "*" /\ \A k \in p + 1..q - 1 : s[k] # "\n"}
       IN IF At(s, p, "*") /\ closers # {}
          THEN SubStr(s, p + 1, MinOf(closers)) \o StripItalicFrom(s, MinOf(closers) + 1)
          ELSE <<s[p]>> \o StripItalicFrom(s, p + 1)
StripItalic(s) == StripItalicFrom(s, 1)

StripMarkdown(s) == Then(StripItalic, Then(StripBold, s))

\* lines 489-496: trim, remove the header, trim, remove the emphasis markers
CleanSegment(s) == Then(StripMarkdown, Then(Trim, Then(StripHeader, Then(Trim, s))))
\* lines 559-563: remove the header, remove the emphasis markers, trim
CleanMainContent(s) == Then(Trim, Then(StripMarkdown, Then(StripHeader, s)))

\* mutant: the start of the next piece is not moved past the match
RECURSIVE SplitFromKeepStart(_, _, _, _)
SplitFromKeepStart(e, n, p, q) ==
  IF q > n THEN <<<<p, n + 1>>>>
  ELSE IF e[q] = 0 \/ e[q] = p THEN SplitFromKeepStart(e, n, p, q + 1)
  ELSE <<<<p, q>>>> \o SplitFromKeepStart(e, n, p, IF e[q] > q THEN e[q] ELSE q + 1)

\* String.prototype.split(regexp): e[q] is the end of the match that starts
\* at q (0: no match), n the length; the result is the list of ranges
RECURSIVE SplitFrom(_, _, _, _)
SplitFrom(e, n, p, q) ==
  IF q > n THEN <<<<p, n + 1>>>>
  ELSE IF e[q] = 0 \/ e[q] = p THEN SplitFrom(e, n, p, q + 1)
  ELSE <<<<p, q>>>> \o SplitFrom(e, n, e[q], e[q])

\* mutant: the split is at the markers of the three numbered kinds
PromptSectionsAnyHeader(s) ==
  SplitFrom([q \in 1..Len(s) |-> NumberedHeaderEnd(s, q)], Len(s), 1, 1)

\* promptText.split(/###\s*Prompt\s*\d*:/i)
PromptSections(s) ==
  SplitFrom([q \in 1..Len(s) |-> HashPromptHeaderEnd(s, q)], Len(s), 1, 1)

\* /(?=\d+\.\s)/ matches the empty string at q
NumberedAt(s, q) ==
  IF q <= Len(s) /\ s[q] \in Digits
  THEN LET r == SkipDigits(s, q) IN
    IF At(s, r, ".") /\ r + 1 <= Len(s) /\ s[r + 1] \in Ws THEN q ELSE 0
  ELSE 0

\* promptText.split(/(?=\d+\.\s)/)
NumberedSplit(s) ==
  SplitFrom([q \in 1..Len(s) |-> NumberedAt(s, q)], Len(s), 1, 1)

\* /\n\s*\n/ at q: the greedy \s* gives back up to the last newline
ParagraphBreakEnd(s, q) ==
  IF At(s, q, "\n")
  THEN LET newlines == {k \in q + 1..SkipWs(s, q + 1) - 1 : s[k] = "\n"}
       IN IF newlines # {} THEN MaxOf(newlines) + 1 ELSE 0
  ELSE 0

\* promptText.split(/\n\s*\n/)
ParagraphSplit(s) ==
  SplitFrom([q \in 1..Len(s) |-> ParagraphBreakEnd(s, q)], Len(s), 1, 1)

\* ------------------------------------------------ createPromptVariation
\* the decimal digits of a number, as `${index}` prints it
RECURSIVE Decimal(_)
Decimal(n) ==
  IF n < 10 THEN <<DigitChars[n + 1]>> ELSE Decimal(n \div 10) \o <<DigitChars[(n % 10) + 1]>>

\* mutant: the variation is built on the base prompt
createPromptVariationOnBase(basePrompt, index) ==
  basePrompt \o <<" ", TemplateNames[(index % PoolSize) + 1], " ">> \o Decimal(index)
    \o <<":", " ", TemplateBodies[(index % PoolSize) + 1]>>

\* mutant: always the first template, without the index
createPromptVariationFixed(basePrompt, index) ==
  <<TemplateNames[1], ":", " ", TemplateBodies[1]>>

\* creativeVariations[index % creativeVariations.length] with ${index} filled in
createPromptVariation(basePrompt, index) ==
  LET k == (index % PoolSize) + 1
  IN <<TemplateNames[k], " ">> \o Decimal(index) \o <<":", " ", TemplateBodies[k]>>

\* ------------------------------------------------------------- inputs
\* The texts the model is run on.  parseMultiplePrompts is called with the
\* trimmed content of the model response (line 425) and a count in 1..5.
HashHeader == <<"#", "#", "#", " ", "Prompt", " ", "1", ":">>
EditingHeader == <<"Prompt", " ", "for", " ", "AI", " ", "Image", " ", "Editing">>
ImageHeader == <<"Image", " ", "1", ":">>
Enumerator(k) == Decimal(k) \o <<".", " ">>

Pieces ==
  { HashHeader, EditingHeader, ImageHeader, Enumerator(1),
    <<"wa">>, <<"WA">>, <<"wb">>, <<"c100">>, <<"y">>,
    <<" ">>, <<"\n", "\n">>, <<"*">>,
    <<"c98", " ", " ", "y">>, Enumerator(1) \o <<"c97">>,
    createPromptVariation(<<>>, 2) }

RECURSIVE FreeTexts(_)
FreeTexts(n) ==
  IF n = 0 THEN {<<>>}
  ELSE LET shorter == FreeTexts(n - 1)
       IN shorter \cup {t \o piece : t \in shorter, piece \in Pieces}

\* the k-th block content of a document: distinct texts longer than 100;
\* content 0 is content 1 in upper case
Content(k) == IF k = 0 THEN <<"WA">> ELSE <<"wa">> \o [j \in 1..k - 1 |-> "y"]

HeaderKinds == {"hash", "plain", "editing", "image", "enum"}
BlockHeader(kind, k) ==
  CASE kind = "hash" -> <<"#", "#", "#", " ", "Prompt", " ">> \o Decimal(k) \o <<":", " ">>
    [] kind = "plain" -> <<"Prompt", " ">> \o Decimal(k) \o <<":", " ">>
    [] kind = "editing" -> EditingHeader \o <<"\n">>
    [] kind = "image" -> <<"Image", " ">> \o Decimal(k) \o <<":", " ">>
    [] kind = "enum" -> Enumerator(k)

\* a document of blocks: block k is header k followed by content cs[k];
\* blocks are separated by sep, after an optional preamble
RECURSIVE Blocks(_, _, _, _)
Blocks(kind, sep, cs, k) ==
  IF k > Len(cs) THEN <<>>
  ELSE BlockHeader(kind, k) \o Content(cs[k])
       \o (IF k < Len(cs) THEN sep ELSE <<>>) \o Blocks(kind, sep, cs, k + 1)

Preambles == {<<>>, <<"y", ":", "\n">>}
Separators == {<<"\n">>, <<"\n", "\n">>}
ContentLists == {[k \in 1..n |-> k] : n \in 1..MaxBlocks} \cup {<<1, 1>>, <<1, 0>>}

BlockDocuments ==
  {pre \o Blocks(kind, sep, cs, 1) :
     pre \in Preambles, kind \in HeaderKinds, sep \in Separators, cs \in ContentLists}

Inputs == {t \in FreeTexts(MaxPieces) \cup BlockDocuments : Trim(t) = t}

\* ------------------------------------------------- parseMultiplePrompts
VARIABLES
  promptText,          \* argument: the raw response text
  expectedCount,       \* argument: the number of prompts wanted
  pc,                  \* position in parseMultiplePrompts
  prompts,             \* const prompts = []
  seenPrompts,         \* const seenPrompts = new Set()
  parts,               \* the match / split list of the running stage, as ranges
  i,                   \* loop index into parts (1-based: JS index + 1)
  stoppedOnDuplicate,  \* the padding loop took its break
  result,              \* the returned array
  origin,              \* history: for each entry of prompts, its stage and range
  considered           \* history: the last candidate a stage tested

\* history: the first call of parseMultiplePrompts that returned, as
\* <<[promptText, expectedCount, result]>>, and <<>> while no call has returned
VARIABLES earlier

\* calls of createPromptVariation: the latest call and the one before it, each
\* [version, basePrompt, index, text]
VARIABLES variationLast, variationPrevious

parserVars == <<promptText, expectedCount, pc, prompts, seenPrompts, parts, i,
                stoppedOnDuplicate, result, origin, considered>>
synthVars == <<variationLast, variationPrevious>>

\* the markup clean-up applied repeatedly to one text
VARIABLES cleanVariant,   \* "segment" (lines 491-496) or "main" (lines 559-563)
          cleanInput,     \* the text before the first pass
          cleanBefore,    \* the text before the latest pass
          cleanOutput,    \* the text after the latest pass
          cleanPasses     \* passes applied: 0, 1, or 2 for two or more

cleanVars == <<cleanVariant, cleanInput, cleanBefore, cleanOutput, cleanPasses>>

\* one request to /api/generate-prompt
VARIABLES body,             \* req.body
          promptPc,         \* "received", "handler", "userAnalysis",
                            \* "clothingAnalysis", "completion", "responded"
          promptStatus,     \* the HTTP status of the response, 0 before it
          numImages,
          userAnalysis,
          clothingAnalysis,
          openaiCalls,      \* history: the upstream calls issued, in order
          parseCall         \* history: <<expectedCount>> once parseMultiplePrompts is called

promptVars == <<body, promptPc, promptStatus, numImages, userAnalysis, clothingAnalysis,
                openaiCalls, parseCall>>

\* one request to /api/generate-try-on
VARIABLES tryOnBody,        \* req.body
          tryOnPc,          \* "received", "handler", "loop", "awaiting", "responded"
          tryOnStatus,      \* the HTTP status of the response, 0 before it
          tryOnNumImages,   \* numImages
          finalPrompts,
          imageIndex,       \* the loop variable i
          replicateCalls    \* history: the upstream calls [index, prompt, state]

tryOnVars == <<tryOnBody, tryOnPc, tryOnStatus, tryOnNumImages, finalPrompts, imageIndex,
               replicateCalls>>

\* the browser client (part_001 lines 2-5 and the try-on button)
VARIABLES userImageFile,    \* a File, or "null"
          userImageData,    \* a URL, or "null"
          clothingImages,   \* data URLs and URLs
          clothingFiles,    \* the Files handed to a FileReader
          pendingReaders,   \* the Files whose FileReader has not called back yet
          disabled,         \* tryOnBtn.disabled
          lastEvent         \* history: the handler that ran last

clientVars == <<userImageFile, userImageData, clothingImages, clothingFiles,
                pendingReaders, disabled, lastEvent>>

vars == <<parserVars, earlier, synthVars, cleanVars, promptVars, tryOnVars, clientVars>>

\* what a step of parseMultiplePrompts leaves alone
outsideCall == <<earlier, synthVars, cleanVars, promptVars, tryOnVars, clientVars>>
\* what the other operations leave alone
outsideSynth == <<parserVars, earlier, cleanVars, promptVars, tryOnVars, clientVars>>
outsideClean == <<parserVars, earlier, synthVars, promptVars, tryOnVars, clientVars>>
outsidePrompt == <<parserVars, earlier, synthVars, cleanVars, tryOnVars, clientVars>>
outsideClient == <<parserVars, earlier, synthVars, cleanVars, promptVars, tryOnVars>>
outsideTryOn == <<parserVars, earlier, synthVars, cleanVars, promptVars, clientVars>>

NoVariationCall == [version |-> "none", basePrompt |-> <<>>, index |-> 0, text |-> <<>>]
SynthIdle == variationLast = NoVariationCall /\ variationPrevious = NoVariationCall
CleanIdle ==
  /\ cleanVariant = "none" /\ cleanInput = <<>> /\ cleanBefore = <<>>
  /\ cleanOutput = <<>> /\ cleanPasses = 0
PromptIdle ==
  /\ body = <<>> /\ promptPc = "idle" /\ promptStatus = 0 /\ numImages = 0
  /\ userAnalysis = "" /\ clothingAnalysis = "" /\ openaiCalls = <<>> /\ parseCall = <<>>
TryOnIdle ==
  /\ tryOnBody = <<>> /\ tryOnPc = "idle" /\ tryOnStatus = 0 /\ tryOnNumImages = 0
  /\ finalPrompts = <<>> /\ imageIndex = 0 /\ replicateCalls = <<>>
ServerIdle == PromptIdle /\ TryOnIdle
\* the page after DOMContentLoaded (part_001 lines 2-5 and 65)
ClientLoaded ==
  /\ userImageFile = "null" /\ userImageData = "null"
  /\ clothingImages = <<>> /\ clothingFiles = <<>>
  /\ pendingReaders = <<>> /\ disabled = TRUE /\ lastEvent = "DOMContentLoaded"

NoCandidate == [stage |-> 0, prompt |-> <<>>, duplicate |-> FALSE, accepted |-> FALSE]

Init ==
  /\ promptText \in Inputs
  /\ expectedCount \in 1..MaxImageCount
  /\ pc = "start"
  /\ prompts = <<>>
  /\ seenPrompts = {}
  /\ parts = <<>>
  /\ i = 1
  /\ stoppedOnDuplicate = FALSE
  /\ result = <<>>
  /\ origin = <<>>
  /\ considered = NoCandidate
  /\ earlier = <<>>
  /\ SynthIdle
  /\ CleanIdle
  /\ ServerIdle
  /\ ClientLoaded

\* mutant: the threshold is not strict
SubstantialAtLeast(prompt) == StrLen(prompt) >= MinPromptLength

\* prompt.length > 100
Substantial(prompt) == StrLen(prompt) > MinPromptLength

\* mutant: no duplicate is ever detected
IsDuplicateNever(seen, normalized) == FALSE

\* seenPrompts.has(normalizedPrompt)
IsDuplicate(seen, normalized) == normalized \in seen

\* mutant: the loops do not test the count
LoopConditionAllParts == i <= Len(parts)

\* the loop condition of the extraction loops
LoopCondition == i <= Len(parts) /\ Len(prompts) < expectedCount

\* mutant: the padding loop runs one iteration too many
PadConditionOver(list, count) == Len(list) <= count

\* mutant: the padding loop stops one short
PadConditionShort(list, count) == Len(list) + 1 < count

\* while (prompts.length < expectedCount)
PadCondition(list, count) == Len(list) < count

\* prompts.slice(0, expectedCount)
Slice(list, count) == SubSeq(list, 1, IF Len(list) < count THEN Len(list) ELSE count)

\* if (prompt.length > 100 && !seenPrompts.has(normalizedPrompt)) { push; add }
TestAndAdd(stage, candidate, range) ==
  \E prompt \in {candidate} : \E normalizedPrompt \in {NormalizedPrompt(prompt)} :
  LET duplicate == IsDuplicate(seenPrompts, normalizedPrompt)
      accepted == Substantial(prompt) /\ ~duplicate
  IN /\ considered' = [stage |-> stage, prompt |-> prompt,
                        duplicate |-> duplicate, accepted |-> accepted]
     /\ IF accepted
        THEN /\ prompts' = Append(prompts, prompt)
             /\ seenPrompts' = seenPrompts \cup {normalizedPrompt}
             /\ origin' = Append(origin, [stage |-> stage, lo |-> range[1], hi |-> range[2]])
        ELSE UNCHANGED <<prompts, seenPrompts, origin>>

Part(k) == SubStr(promptText, parts[k][1], parts[k][2])

\* lines 484-487: the structured match
Stage1Begin ==
  /\ pc = "start"
  /\ parts' = StructuredPrompts(promptText)
  /\ i' = 1
  /\ pc' = "loop1"
  /\ UNCHANGED outsideCall
  /\ UNCHANGED <<promptText, expectedCount, prompts, seenPrompts, stoppedOnDuplicate,
                 result, origin, considered>>

\* lines 488-506: one iteration over structuredPrompts
Stage1Step ==
  /\ pc = "loop1"
  /\ LoopCondition
  /\ TestAndAdd(1, CleanSegment(Part(i)), parts[i])
  /\ i' = i + 1
  /\ UNCHANGED outsideCall
  /\ UNCHANGED <<promptText, expectedCount, pc, parts, stoppedOnDuplicate, result>>

\* lines 510-512: split by "### Prompt" sections, loop from index 1
Stage2Begin ==
  /\ pc = "loop1"
  /\ ~LoopCondition
  /\ IF Len(prompts) < expectedCount
     THEN parts' = PromptSections(promptText)
     ELSE parts' = <<>>
  /\ i' = 2
  /\ pc' = "loop2"
  /\ UNCHANGED outsideCall
  /\ UNCHANGED <<promptText, expectedCount, prompts, seenPrompts, stoppedOnDuplicate,
                 result, origin, considered>>

\* lines 514-529: one iteration over promptSections
Stage2Step ==
  /\ pc = "loop2"
  /\ LoopCondition
  /\ TestAndAdd(2, StripMarkdown(Trim(Part(i))), parts[i])
  /\ i' = i + 1
  /\ UNCHANGED outsideCall
  /\ UNCHANGED <<promptText, expectedCount, pc, parts, stoppedOnDuplicate, result>>

\* lines 533-536: split by numbered items, loop from index 1
Stage3Begin ==
  /\ pc = "loop2"
  /\ ~LoopCondition
  /\ IF Len(prompts) < expectedCount
     THEN parts' = NumberedSplit(promptText)
     ELSE parts' = <<>>
  /\ i' = 2
  /\ pc' = "loop3"
  /\ UNCHANGED outsideCall
  /\ UNCHANGED <<promptText, expectedCount, prompts, seenPrompts, stoppedOnDuplicate,
                 result, origin, considered>>

\* lines 537-552: one iteration over numberedSplit
Stage3Step ==
  /\ pc = "loop3"
  /\ LoopCondition
  /\ TestAndAdd(3, StripMarkdown(Trim(Part(i))), parts[i])
  /\ i' = i + 1
  /\ UNCHANGED outsideCall
  /\ UNCHANGED <<promptText, expectedCount, pc, parts, stoppedOnDuplicate, result>>

\* lines 557-574: the main content as a single prompt
Stage4 ==
  /\ pc = "loop3"
  /\ ~LoopCondition
  /\ IF Len(prompts) < expectedCount
     THEN TestAndAdd(4, CleanMainContent(promptText),
                     <<1, Len(promptText) + 1>>)
     ELSE UNCHANGED <<prompts, seenPrompts, origin, considered>>
  /\ pc' = "stage5"
  /\ UNCHANGED outsideCall
  /\ UNCHANGED <<promptText, expectedCount, parts, i, stoppedOnDuplicate, result>>

\* lines 577-579: split by double line breaks, loop from index 0
Stage5Begin ==
  /\ pc = "stage5"
  /\ IF Len(prompts) < expectedCount
     THEN parts' = ParagraphSplit(promptText)
     ELSE parts' = <<>>
  /\ i' = 1
  /\ pc' = "loop5"
  /\ UNCHANGED outsideCall
  /\ UNCHANGED <<promptText, expectedCount, prompts, seenPrompts, stoppedOnDuplicate,
                 result, origin, considered>>

\* lines 580-595: one iteration over paragraphSplit
Stage5Step ==
  /\ pc = "loop5"
  /\ LoopCondition
  /\ TestAndAdd(5, Then(StripMarkdown, Then(Trim, Part(i))), parts[i])
  /\ i' = i + 1
  /\ UNCHANGED outsideCall
  /\ UNCHANGED <<promptText, expectedCount, pc, parts, stoppedOnDuplicate, result>>

\* the paragraph loop is left
Stage5End ==
  /\ pc = "loop5"
  /\ ~LoopCondition
  /\ pc' = "pad"
  /\ UNCHANGED outsideCall
  /\ UNCHANGED <<promptText, expectedCount, prompts, seenPrompts, parts, i,
                 stoppedOnDuplicate, result, origin, considered>>

\* mutant: a repeated variation does not leave the loop
PadStepNoBreak ==
  /\ pc = "pad"
  /\ ~stoppedOnDuplicate
  /\ PadCondition(prompts, expectedCount)
  /\ LET basePrompt == IF prompts # <<>> /\ prompts[1] # <<>> THEN prompts[1] ELSE promptText
         variation == createPromptVariation(basePrompt, Len(prompts) + 1)
         normalizedVariation == NormalizedPrompt(variation)
     IN IF ~IsDuplicate(seenPrompts, normalizedVariation)
        THEN /\ prompts' = Append(prompts, variation)
             /\ seenPrompts' = seenPrompts \cup {normalizedVariation}
             /\ origin' = Append(origin, [stage |-> 6, lo |-> 0, hi |-> 0])
        ELSE UNCHANGED <<prompts, seenPrompts, origin>>
  /\ UNCHANGED outsideCall
  /\ UNCHANGED <<promptText, expectedCount, pc, parts, i, result, considered,
                 stoppedOnDuplicate>>

\* lines 599-615: one iteration of the padding loop
PadStep ==
  /\ pc = "pad"
  /\ ~stoppedOnDuplicate
  /\ PadCondition(prompts, expectedCount)
  /\ LET basePrompt == IF prompts # <<>> /\ prompts[1] # <<>> THEN prompts[1] ELSE promptText
         variation == createPromptVariation(basePrompt, Len(prompts) + 1)
         normalizedVariation == NormalizedPrompt(variation)
     IN IF ~IsDuplicate(seenPrompts, normalizedVariation)
        THEN /\ prompts' = Append(prompts, variation)
             /\ seenPrompts' = seenPrompts \cup {normalizedVariation}
             /\ origin' = Append(origin, [stage |-> 6, lo |-> 0, hi |-> 0])
             /\ UNCHANGED stoppedOnDuplicate
        ELSE /\ stoppedOnDuplicate' = TRUE
             /\ UNCHANGED <<prompts, seenPrompts, origin>>
  /\ UNCHANGED outsideCall
  /\ UNCHANGED <<promptText, expectedCount, pc, parts, i, result, considered>>

\* line 618: return prompts.slice(0, expectedCount)
Return ==
  /\ pc = "pad"
  /\ stoppedOnDuplicate \/ ~PadCondition(prompts, expectedCount)
  /\ result' = Slice(prompts, expectedCount)
  /\ pc' = "done"
  /\ UNCHANGED outsideCall
  /\ UNCHANGED <<promptText, expectedCount, prompts, seenPrompts, parts, i,
                 stoppedOnDuplicate, origin, considered>>

Next ==
  \/ Stage1Begin \/ Stage1Step
  \/ Stage2Begin \/ Stage2Step
  \/ Stage3Begin \/ Stage3Step
  \/ Stage4
  \/ Stage5Begin \/ Stage5Step \/ Stage5End
  \/ PadStep
  \/ Return

Spec == Init /\ [][Next]_vars

\* ------------------------------------------------------------ properties
Done == pc = "done"

\* the normalized form as the specification words it: lowercased, whitespace
\* runs collapsed to one space, trimmed
NormalForm(s) == Trim(CollapseWhitespace(ToLowerCase(s)))

\* entry k of the list was extracted from the text (stages 1-5)
Extracted(k) == origin[k].stage \in 1..5
Synthesized(k) == origin[k].stage = 6

\* the source ranges of entries j and k share no position
Disjoint(j, k) == origin[j].hi <= origin[k].lo \/ origin[k].hi <= origin[j].lo

\* t occurs in s
Contains(s, t) == \E p \in 1..Len(s) - Len(t) + 1 : SubSeq(s, p, p + Len(t) - 1) = t

\* C1: for every text and every count in 1..5 the returned list has exactly
\* expectedCount entries.
ExactCountAlways == Done => Len(result) = expectedCount

\* C2: the returned list is shorter than expectedCount only when the padding
\* loop stopped on a variation whose normalized form was already seen; in
\* every other execution it has expectedCount entries.
ShortOnlyOnDuplicateVariation ==
  Done => /\ (Len(result) < expectedCount => stoppedOnDuplicate)
          /\ (~stoppedOnDuplicate => Len(result) = expectedCount)
          /\ (stoppedOnDuplicate =>
                 NormalForm(createPromptVariation(promptText, Len(prompts) + 1))
                   \in {NormalForm(prompts[k]) : k \in 1..Len(prompts)})

UnderDelivered == Done /\ stoppedOnDuplicate /\ Len(result) < expectedCount

\* C3: no two entries of the returned list have the same normalized form.
NoDuplicateSegments ==
  Done => \A j, k \in 1..Len(result) :
            j # k => NormalForm(result[j]) # NormalForm(result[k])

DuplicateDiscarded ==
  /\ Done /\ Len(result) >= 2
  /\ considered.duplicate /\ StrLen(considered.prompt) > MinPromptLength
  /\ \E j, k \in 1..Len(origin) : origin[j].stage # origin[k].stage

\* C4: every returned entry is longer than 100 characters when measured on
\* its whitespace-collapsed form.
CollapsedLengthAboveThreshold ==
  Done => \A k \in 1..Len(result) :
            StrLen(Trim(CollapseWhitespace(result[k]))) > MinPromptLength

\* C5 as stated: when the whole text is shorter than 100 characters the
\* returned list contains the text itself as one entry.
ShortText == promptText # <<>> /\ StrLen(promptText) < MinPromptLength
ExtractedSegmentsDisjoint ==
  Done => \A j, k \in 1..Len(origin) :
            (j # k /\ Extracted(j) /\ Extracted(k)) => Disjoint(j, k)

\* C6 amended: entries extracted by the same stage come from pairwise
\* disjoint ranges of the text; entries of different stages may overlap (the
\* main-content stage takes the whole text).
SameStageSegmentsDisjoint ==
  \A j, k \in 1..Len(origin) :
     (j # k /\ Extracted(j) /\ origin[j].stage = origin[k].stage) => Disjoint(j, k)

TwoSegmentsOfOneStage ==
  /\ Done
  /\ \E j, k \in 1..Len(origin) :
       j # k /\ Extracted(j) /\ origin[j].stage = origin[k].stage
  /\ \E j, k \in 1..Len(origin) :
       j # k /\ Extracted(j) /\ Extracted(k) /\ ~Disjoint(j, k)

\* C7: for a text made of more than expectedCount enumerated items, each
\* longer than 100 characters, the result is the first expectedCount items
\* in document order.
EnumeratedItem(k) == Enumerator(k) \o Content(k)
EnumeratedDocuments ==
  {pre \o Blocks("enum", sep, [k \in 1..n |-> k], 1) :
     pre \in Preambles, sep \in Separators, n \in 1..MaxBlocks}
FirstEnumeratedItemsReturned ==
  (Done /\ promptText \in EnumeratedDocuments
        /\ Contains(promptText, EnumeratedItem(expectedCount + 1))) =>
     result = [k \in 1..expectedCount |-> EnumeratedItem(k)]

\* C8 as stated: for two header-delimited blocks with the same content and
\* expectedCount = 2 the result is the content followed by one synthesized
\* variation.
DuplicateBlockDocuments ==
  {pre \o Blocks(kind, sep, <<1, 1>>, 1) :
     pre \in Preambles, kind \in HeaderKinds \ {"enum"}, sep \in Separators}
DuplicateBlocksCase == Done /\ promptText \in DuplicateBlockDocuments /\ expectedCount = 2
DuplicateBlockPadded ==
  DuplicateBlocksCase =>
     /\ Len(result) = 2
     /\ result[1] = Content(1)
     /\ Synthesized(2)

\* C8 amended: for two header-delimited blocks with the same plain content
\* and expectedCount = 2 the result has two entries, and it is never the
\* content followed by a synthesized variation: the content alone is returned
\* at most once, and the main-content stage supplies an entry that holds the
\* text of both blocks.
DuplicateBlockWholeText ==
  DuplicateBlocksCase =>
     /\ Len(result) = 2
     /\ ~(result[1] = Content(1) /\ Synthesized(2))
     /\ Cardinality({k \in 1..2 : NormalForm(result[k]) = Content(1)}) <= 1
     /\ \E k \in 1..2 :
          /\ origin[k].stage = 4
          /\ \E p, q \in 1..Len(result[k]) :
               /\ p + Len(Content(1)) <= q
               /\ SubSeq(result[k], p, p + Len(Content(1)) - 1) = Content(1)
               /\ SubSeq(result[k], q, q + Len(Content(1)) - 1) = Content(1)

DuplicateBlockOnceThenWhole ==
  /\ DuplicateBlocksCase
  /\ result[1] = Content(1)
  /\ origin[1].stage \in {1, 2}
  /\ origin[2].stage = 4

\* C9: when stages 1-5 extract nothing, the result has expectedCount entries,
\* each a variation template carrying its position, all mutually distinct.
NothingExtracted == \A k \in 1..Len(origin) : ~Extracted(k)
PaddingOnly ==
  (Done /\ NothingExtracted) =>
     /\ Len(result) = expectedCount
     /\ \A k \in 1..Len(result) :
          /\ Synthesized(k)
          /\ result[k][1] \in {TemplateNames[n] : n \in 1..PoolSize}
     /\ \A j, k \in 1..Len(result) : j # k => result[j] # result[k]

EmptyTextFivePrompts ==
  Done /\ promptText = <<>> /\ expectedCount = MaxImageCount /\ Len(result) = MaxImageCount

\* C10: a candidate of exactly 100 characters is rejected by every
\* extraction stage, and a candidate of 101 characters that was not seen
\* before is accepted.
ThresholdBoundary ==
  considered.stage \in 1..5 =>
     /\ (StrLen(considered.prompt) = 100 => ~considered.accepted)
     /\ ((StrLen(considered.prompt) = 101 /\ ~considered.duplicate) => considered.accepted)

BoundaryCandidateRejected ==
  /\ considered.stage = 3
  /\ StrLen(considered.prompt) = 100
  /\ ~considered.duplicate
  /\ ~considered.accepted

\* ======================================================================
\* createPromptVariation as a function of its two arguments
\* ======================================================================
MaxIndex == 12           \* the indices the function is called with: 0..MaxIndex
LegacyPoolSize == 4      \* creativeVariations.length in server.js

\* server.js: the same function over the first four templates
createPromptVariationLegacy(basePrompt, index) ==
  LET k == (index % LegacyPoolSize) + 1
  IN <<TemplateNames[k], " ">> \o Decimal(index) \o <<":", " ", TemplateBodies[k]>>

VariationBases == {<<>>, <<"y">>, <<"wa">>, HashHeader \o <<"wa">>}

ParserIdle ==
  /\ promptText = <<>>
  /\ expectedCount = 1
  /\ pc = "idle"
  /\ prompts = <<>>
  /\ seenPrompts = {}
  /\ parts = <<>>
  /\ i = 1
  /\ stoppedOnDuplicate = FALSE
  /\ result = <<>>
  /\ origin = <<>>
  /\ considered = NoCandidate
  /\ earlier = <<>>

VariationInit == ParserIdle /\ SynthIdle /\ CleanIdle /\ ServerIdle /\ ClientLoaded

\* one call of createPromptVariation (src/unnamed/part_000)
CallVariation ==
  \E base \in VariationBases, index \in 0..MaxIndex :
    /\ variationPrevious' = variationLast
    /\ variationLast' = [version |-> "current", basePrompt |-> base, index |-> index,
                          text |-> createPromptVariation(base, index)]
    /\ UNCHANGED outsideSynth

\* one call of createPromptVariation (src/server.js)
CallVariationLegacy ==
  \E base \in VariationBases, index \in 0..MaxIndex :
    /\ variationPrevious' = variationLast
    /\ variationLast' = [version |-> "legacy", basePrompt |-> base, index |-> index,
                          text |-> createPromptVariationLegacy(base, index)]
    /\ UNCHANGED outsideSynth

VariationNext == CallVariation \/ CallVariationLegacy

VariationSpec == VariationInit /\ [][VariationNext]_vars

\* the number a sequence of decimal digits spells
RECURSIVE DigitsValue(_)
DigitsValue(ds) ==
  IF ds = <<>> THEN 0
  ELSE 10 * DigitsValue(SubSeq(ds, 1, Len(ds) - 1))
       + (CHOOSE d \in 0..9 : DigitChars[d + 1] = ds[Len(ds)])

PoolOf(call) == IF call.version = "legacy" THEN LegacyPoolSize ELSE PoolSize

\* the text of a call is template (index modulo pool size) with the index in it
TemplateWithIndex(call) ==
  LET k == (call.index % PoolOf(call)) + 1
      n == Len(call.text)
  IN /\ n >= 6
     /\ call.text[1] = TemplateNames[k] /\ call.text[2] = " "
     /\ call.text[n - 2] = ":" /\ call.text[n - 1] = " " /\ call.text[n] = TemplateBodies[k]
     /\ \A j \in 3..n - 3 : call.text[j] \in Digits
     /\ DigitsValue(SubSeq(call.text, 3, n - 3)) = call.index

\* C11: createPromptVariation(basePrompt, index) returns the template at
\* position index modulo the pool size with the index substituted, and two
\* calls with the same index return the same text whatever the base prompt.
VariationDependsOnIndexOnly ==
  /\ variationLast.version # "none" => TemplateWithIndex(variationLast)
  /\ (/\ variationPrevious.version # "none"
      /\ variationPrevious.version = variationLast.version
      /\ variationPrevious.index = variationLast.index)
       => variationPrevious.text = variationLast.text

SameIndexOtherBase ==
  /\ variationPrevious.version = "current" /\ variationLast.version = "current"
  /\ variationPrevious.index = variationLast.index
  /\ variationLast.index > PoolSize
  /\ variationPrevious.basePrompt # variationLast.basePrompt
  /\ variationPrevious.text = variationLast.text

\* ======================================================================
\* the markup clean-up applied to its own output
\* ======================================================================
MaxMarkupPieces == 4     \* pieces a text is built from

NumberedHeader == <<"Prompt", " ", "1", ":">>
MarkupPieces == {<<"*">>, <<"*", "*">>, <<" ">>, <<"\n">>, <<"y">>, NumberedHeader}

RECURSIVE MarkupTexts(_)
MarkupTexts(n) ==
  IF n = 0 THEN {<<>>}
  ELSE LET shorter == MarkupTexts(n - 1)
       IN shorter \cup {t \o piece : t \in shorter, piece \in MarkupPieces}

CleanInit ==
  /\ ParserIdle /\ SynthIdle /\ ServerIdle /\ ClientLoaded
  /\ cleanVariant \in {"segment", "main"}
  /\ cleanInput \in MarkupTexts(MaxMarkupPieces)
  /\ cleanBefore = cleanInput
  /\ cleanOutput = cleanInput
  /\ cleanPasses = 0

\* one pass of the clean-up of a structured block (lines 489-496)
ApplyCleanSegment ==
  /\ cleanVariant = "segment"
  /\ cleanBefore' = cleanOutput
  /\ cleanOutput' = CleanSegment(cleanOutput)
  /\ cleanPasses' = IF cleanPasses < 2 THEN cleanPasses + 1 ELSE 2
  /\ UNCHANGED <<cleanVariant, cleanInput, outsideClean>>

\* one pass of the clean-up of the whole text (lines 559-563)
ApplyCleanMainContent ==
  /\ cleanVariant = "main"
  /\ cleanBefore' = cleanOutput
  /\ cleanOutput' = CleanMainContent(cleanOutput)
  /\ cleanPasses' = IF cleanPasses < 2 THEN cleanPasses + 1 ELSE 2
  /\ UNCHANGED <<cleanVariant, cleanInput, outsideClean>>

CleanNext == ApplyCleanSegment \/ ApplyCleanMainContent

CleanSpec == CleanInit /\ [][CleanNext]_vars

\* C12: the markup clean-up of parseMultiplePrompts is idempotent: a pass
\* applied to the output of an earlier pass leaves the text unchanged.
CleanUpIdempotent == cleanPasses = 2 => cleanOutput = cleanBefore

\* ======================================================================
\* parseMultiplePrompts called again and again by the request handlers
\* ======================================================================
RepeatInputs ==
  { <<>>, <<"y">>, <<"wa">>, <<"WA">>,
    HashHeader \o <<"wa">> \o HashHeader \o <<"wb">>,
    EditingHeader \o <<"wa">> \o EditingHeader \o <<"wb">>,
    Enumerator(1) \o <<"wa", "\n">> \o Enumerator(2) \o <<"wb">>,
    createPromptVariation(<<>>, 2) }

RepeatInit ==
  /\ promptText \in RepeatInputs
  /\ expectedCount \in 1..MaxImageCount
  /\ pc = "start"
  /\ prompts = <<>>
  /\ seenPrompts = {}
  /\ parts = <<>>
  /\ i = 1
  /\ stoppedOnDuplicate = FALSE
  /\ result = <<>>
  /\ origin = <<>>
  /\ considered = NoCandidate
  /\ earlier = <<>>
  /\ SynthIdle
  /\ CleanIdle
  /\ ServerIdle
  /\ ClientLoaded

\* mutant: the set of seen prompts outlives the call
CallAgainSharedSeen ==
  /\ pc = "done"
  /\ \E text \in RepeatInputs, count \in 1..MaxImageCount :
       /\ promptText' = text
       /\ expectedCount' = count
  /\ earlier' = IF earlier = <<>>
                 THEN <<[promptText |-> promptText, expectedCount |-> expectedCount,
                         result |-> result]>>
                 ELSE earlier
  /\ pc' = "start"
  /\ prompts' = <<>>
  /\ parts' = <<>>
  /\ i' = 1
  /\ stoppedOnDuplicate' = FALSE
  /\ result' = <<>>
  /\ origin' = <<>>
  /\ considered' = NoCandidate
  /\ UNCHANGED <<seenPrompts, synthVars, cleanVars, promptVars, tryOnVars, clientVars>>

\* lines 476-478: the next call of the function, by the same or by another
\* request handler; the function is synchronous, so a call begins only after
\* the running one has returned, and prompts and seenPrompts are created anew
CallAgain ==
  /\ pc = "done"
  /\ \E text \in RepeatInputs, count \in 1..MaxImageCount :
       /\ promptText' = text
       /\ expectedCount' = count
  /\ earlier' = IF earlier = <<>>
                 THEN <<[promptText |-> promptText, expectedCount |-> expectedCount,
                         result |-> result]>>
                 ELSE earlier
  /\ pc' = "start"
  /\ prompts' = <<>>
  /\ seenPrompts' = {}
  /\ parts' = <<>>
  /\ i' = 1
  /\ stoppedOnDuplicate' = FALSE
  /\ result' = <<>>
  /\ origin' = <<>>
  /\ considered' = NoCandidate
  /\ UNCHANGED <<synthVars, cleanVars, promptVars, tryOnVars, clientVars>>

RepeatNext ==
  \/ Stage1Begin \/ Stage1Step
  \/ Stage2Begin \/ Stage2Step
  \/ Stage3Begin \/ Stage3Step
  \/ Stage4
  \/ Stage5Begin \/ Stage5Step \/ Stage5End
  \/ PadStep
  \/ Return
  \/ CallAgain

RepeatSpec == RepeatInit /\ [][RepeatNext]_vars

SameArguments ==
  /\ earlier # <<>>
  /\ earlier[1].promptText = promptText
  /\ earlier[1].expectedCount = expectedCount

\* C13: parseMultiplePrompts is stateless: a call made after any number of
\* other calls returns the list that the first call, which ran alone,
\* returned for the same text and count.
StatelessCalls == (Done /\ SameArguments) => result = earlier[1].result

RepeatedCallSameResult ==
  /\ Done /\ SameArguments
  /\ promptText = <<"wa">> /\ expectedCount = 2
  /\ result = <<promptText, createPromptVariation(promptText, 2)>>

\* ======================================================================
\* JavaScript values of a JSON request body and the conversions the
\* handlers apply to them
\* ======================================================================
MaxCount == 6            \* the numbers a body carries have integer parts 0..MaxCount

\* a Number: NaN, or sign, integer part and whether a fraction follows
NaN == [nan |-> TRUE, neg |-> FALSE, int |-> 0, frac |-> FALSE]
Num(neg, int, frac) == [nan |-> FALSE, neg |-> neg, int |-> int, frac |-> frac]
IntegerNumber(k) == IF k < 0 THEN Num(TRUE, 0 - k, FALSE) ELSE Num(FALSE, k, FALSE)

JsUndefined == [type |-> "undefined", bool |-> FALSE, num |-> NaN, str |-> <<>>]
JsNull == [type |-> "null", bool |-> FALSE, num |-> NaN, str |-> <<>>]
JsBoolean(b) == [type |-> "boolean", bool |-> b, num |-> NaN, str |-> <<>>]
JsNumber(n) == [type |-> "number", bool |-> FALSE, num |-> n, str |-> <<>>]
JsString(s) == [type |-> "string", bool |-> FALSE, num |-> NaN, str |-> s]
JsEmptyArray == [type |-> "array", bool |-> FALSE, num |-> NaN, str |-> <<>>]
JsObject == [type |-> "object", bool |-> FALSE, num |-> NaN, str |-> <<>>]

\* ToBoolean
Truthy(v) ==
  CASE v.type = "boolean" -> v.bool
    [] v.type = "number" -> ~v.num.nan /\ ~(v.num.int = 0 /\ ~v.num.frac)
    [] v.type = "string" -> v.str # <<>>
    [] v.type \in {"array", "object"} -> TRUE
    [] OTHER -> FALSE

\* StringToNumber for decimal literals: optional sign, digits, optional
\* fraction; the whole trimmed string has to be the literal
StringToNumber(s) ==
  LET t == Trim(s)
      neg == At(t, 1, "-")
      a == IF At(t, 1, "-") \/ At(t, 1, "+") THEN 2 ELSE 1
      b == SkipDigits(t, a)
      c == IF At(t, b, ".") THEN SkipDigits(t, b + 1) ELSE b
      fracDigits == IF At(t, b, ".") THEN SubStr(t, b + 1, c) ELSE <<>>
  IN IF t = <<>> THEN Num(FALSE, 0, FALSE)
     ELSE IF c # Len(t) + 1 \/ (b = a /\ fracDigits = <<>>) THEN NaN
     ELSE Num(neg, DigitsValue(SubStr(t, a, b)),
              \E k \in 1..Len(fracDigits) : fracDigits[k] # "0")

\* ToNumber
ToNumber(v) ==
  CASE v.type = "number" -> v.num
    [] v.type = "null" -> Num(FALSE, 0, FALSE)
    [] v.type = "boolean" -> Num(FALSE, IF v.bool THEN 1 ELSE 0, FALSE)
    [] v.type = "string" -> StringToNumber(v.str)
    [] v.type = "array" -> StringToNumber(<<>>)
    [] OTHER -> NaN

\* x < k and x > k for a value x and an integer k >= 1; false for NaN
LessThan(v, k) ==
  LET x == ToNumber(v) IN ~x.nan /\ (x.neg \/ x.int < k)
GreaterThan(v, k) ==
  LET x == ToNumber(v) IN ~x.nan /\ ~x.neg /\ (x.int > k \/ (x.int = k /\ x.frac))

\* ToString of a value; a fraction prints as ".5"
JsToString(v) ==
  CASE v.type = "string" -> v.str
    [] v.type = "number" ->
         IF v.num.nan THEN <<"NaN">>
         ELSE (IF v.num.neg THEN <<"-">> ELSE <<>>) \o Decimal(v.num.int)
              \o (IF v.num.frac THEN <<".", "5">> ELSE <<>>)
    [] v.type = "boolean" -> IF v.bool THEN <<"true">> ELSE <<"false">>
    [] v.type = "array" -> <<>>
    [] v.type = "object" -> <<"[object Object]">>
    [] OTHER -> <<v.type>>

\* parseInt: leading white space, optional sign, the longest run of digits
parseInt(v) ==
  LET s == JsToString(v)
      p == SkipWs(s, 1)
      a == IF At(s, p, "-") \/ At(s, p, "+") THEN p + 1 ELSE p
      b == SkipDigits(s, a)
  IN IF b = a THEN NaN ELSE Num(At(s, p, "-"), DigitsValue(SubStr(s, a, b)), FALSE)

\* x || 1 for a Number x
OrOne(x) == IF x.nan \/ (x.int = 0 /\ ~x.frac) THEN IntegerNumber(1) ELSE x

SignedValue(x) == IF x.neg THEN 0 - x.int ELSE x.int
\* Math.max and Math.min of an integer or NaN and an integer
MathMax(x, k) == IF x.nan THEN NaN ELSE IntegerNumber(IF SignedValue(x) > k THEN SignedValue(x) ELSE k)
MathMin(x, k) == IF x.nan THEN NaN ELSE IntegerNumber(IF SignedValue(x) < k THEN SignedValue(x) ELSE k)

\* mutant: without the default for NaN
ClampImageCountNoDefault(v) == MathMin(MathMax(parseInt(v), 1), MaxImageCount)

\* Math.min(Math.max(parseInt(imageCount) || 1, 1), 5)
ClampImageCount(v) == MathMin(MathMax(OrOne(parseInt(v)), 1), MaxImageCount)

\* the image counts a body carries
ImageCountValues ==
  {JsNumber(Num(neg, int, frac)) : neg \in BOOLEAN, int \in 0..MaxCount, frac \in BOOLEAN}
  \cup {JsString(s) : s \in {<<>>, <<"a", "b", "c">>, <<"3">>, <<"0">>, <<"7">>,
                              <<" ", "4", " ">>, <<"2", ".", "5">>, <<"5", ".", "0">>,
                              <<"5", ".", "1">>, <<"5", "a">>, <<"-", "2">>, <<".", "5">>}}
  \cup {JsUndefined, JsNull, JsBoolean(TRUE), JsBoolean(FALSE), JsEmptyArray, JsObject}

\* ======================================================================
\* POST /api/generate-prompt
\* ======================================================================
MaxCustomPromptLength == 1000

\* a customPrompt: its type and, for a string or an array, its length
CustomPromptValues ==
  {[type |-> "undefined", length |-> 0], [type |-> "number", length |-> 0]}
  \cup {[type |-> t, length |-> n] :
          t \in {"string", "array"},
          n \in {0, 1, MaxCustomPromptLength, MaxCustomPromptLength + 1}}

CustomPromptTruthy(c) ==
  c.type \in {"number", "array"} \/ (c.type = "string" /\ c.length > 0)

PromptBodies ==
  [userImageData : BOOLEAN,
   clothingImages : {"missing", "notArray", "empty", "nonEmpty"},
   style : {"missing", "notString", "string"},
   imageCount : ImageCountValues,
   customPrompt : CustomPromptValues]

\* line 165: !imageCount || imageCount < 1 || imageCount > 5
ImageCountRejected(v) == ~Truthy(v) \/ LessThan(v, 1) \/ GreaterThan(v, MaxImageCount)

\* line 169: customPrompt && typeof customPrompt !== 'string'
\*           && customPrompt.length > 1000
CustomPromptRejected(c) ==
  /\ CustomPromptTruthy(c)
  /\ c.type # "string"
  /\ c.type \in {"string", "array"} /\ c.length > MaxCustomPromptLength

\* lines 150-174: TRUE when the middleware calls next()
validatePromptRequest(b) ==
  /\ b.userImageData
  /\ b.clothingImages = "nonEmpty"
  /\ b.style = "string"
  /\ ~ImageCountRejected(b.imageCount)
  /\ ~CustomPromptRejected(b.customPrompt)

\* the status the catch blocks answer with (lines 456-471 and 866-881)
ErrorKinds == {"authentication", "rate limit", "other"}
ErrorStatus(kind) ==
  CASE kind = "authentication" -> 401 [] kind = "rate limit" -> 429 [] OTHER -> 500

PromptReceived ==
  /\ body \in PromptBodies
  /\ promptPc = "received" /\ promptStatus = 0 /\ numImages = 0
  /\ userAnalysis = "" /\ clothingAnalysis = "" /\ openaiCalls = <<>> /\ parseCall = <<>>

\* mutant: the middleware answers 400 and still calls next()
ValidatePromptRequestNoReturn ==
  /\ promptPc = "received"
  /\ IF validatePromptRequest(body)
     THEN UNCHANGED promptStatus
     ELSE promptStatus' = 400
  /\ promptPc' = "handler"
  /\ UNCHANGED <<body, numImages, userAnalysis, clothingAnalysis, openaiCalls, parseCall>>
  /\ UNCHANGED outsidePrompt

\* line 199: the middleware runs before the handler
ValidatePromptRequest ==
  /\ promptPc = "received"
  /\ IF validatePromptRequest(body)
     THEN promptPc' = "handler" /\ UNCHANGED promptStatus
     ELSE promptPc' = "responded" /\ promptStatus' = 400
  /\ UNCHANGED <<body, numImages, userAnalysis, clothingAnalysis, openaiCalls, parseCall>>
  /\ UNCHANGED outsidePrompt

\* lines 201-210: imageCount = 1 when the body has none
GeneratePromptBegin ==
  /\ promptPc = "handler"
  /\ IF body.style = "missing"
     THEN promptPc' = "responded" /\ promptStatus' = 400 /\ UNCHANGED numImages
     ELSE /\ numImages' = ClampImageCount(IF body.imageCount = JsUndefined
                                          THEN JsNumber(IntegerNumber(1))
                                          ELSE body.imageCount)
          /\ promptPc' = "userAnalysis"
          /\ UNCHANGED promptStatus
  /\ UNCHANGED <<body, userAnalysis, clothingAnalysis, openaiCalls, parseCall>>
  /\ UNCHANGED outsidePrompt

\* lines 219-239: the user photo analysis, when there is a photo
AnalyzeUserPhoto ==
  /\ promptPc = "userAnalysis"
  /\ IF body.userImageData
     THEN /\ openaiCalls' = Append(openaiCalls, "userAnalysis")
          /\ userAnalysis' = "done"
     ELSE UNCHANGED <<openaiCalls, userAnalysis>>
  /\ promptPc' = "clothingAnalysis"
  /\ UNCHANGED <<body, promptStatus, numImages, clothingAnalysis, parseCall>>
  /\ UNCHANGED outsidePrompt

\* mutant: the failed analysis reaches the outer catch block
AnalyzeUserPhotoFailsRequest ==
  /\ promptPc = "userAnalysis"
  /\ body.userImageData
  /\ openaiCalls' = Append(openaiCalls, "userAnalysis")
  /\ userAnalysis' = "unavailable"
  /\ \E kind \in ErrorKinds : promptStatus' = ErrorStatus(kind)
  /\ promptPc' = "responded"
  /\ UNCHANGED <<body, numImages, clothingAnalysis, parseCall>>
  /\ UNCHANGED outsidePrompt

\* lines 240-243: the call throws
AnalyzeUserPhotoFails ==
  /\ promptPc = "userAnalysis"
  /\ body.userImageData
  /\ openaiCalls' = Append(openaiCalls, "userAnalysis")
  /\ userAnalysis' = "unavailable"
  /\ promptPc' = "clothingAnalysis"
  /\ UNCHANGED <<body, promptStatus, numImages, clothingAnalysis, parseCall>>
  /\ UNCHANGED outsidePrompt

\* lines 246-266: the clothing analysis, when there are clothing images
AnalyzeClothing ==
  /\ promptPc = "clothingAnalysis"
  /\ IF body.clothingImages = "nonEmpty"
     THEN /\ openaiCalls' = Append(openaiCalls, "clothingAnalysis")
          /\ clothingAnalysis' = "done"
     ELSE UNCHANGED <<openaiCalls, clothingAnalysis>>
  /\ promptPc' = "completion"
  /\ UNCHANGED <<body, promptStatus, numImages, userAnalysis, parseCall>>
  /\ UNCHANGED outsidePrompt

\* lines 267-270: the call throws
AnalyzeClothingFails ==
  /\ promptPc = "clothingAnalysis"
  /\ body.clothingImages = "nonEmpty"
  /\ openaiCalls' = Append(openaiCalls, "clothingAnalysis")
  /\ clothingAnalysis' = "unavailable"
  /\ promptPc' = "completion"
  /\ UNCHANGED <<body, promptStatus, numImages, userAnalysis, parseCall>>
  /\ UNCHANGED outsidePrompt

\* lines 418-445: the completion, parseMultiplePrompts(promptText, numImages)
\* and the response
MainCompletion ==
  /\ promptPc = "completion"
  /\ openaiCalls' = Append(openaiCalls, "completion")
  /\ parseCall' = <<numImages>>
  /\ promptStatus' = 200
  /\ promptPc' = "responded"
  /\ UNCHANGED <<body, numImages, userAnalysis, clothingAnalysis>>
  /\ UNCHANGED outsidePrompt

\* lines 447-472: the completion throws
MainCompletionFails ==
  /\ promptPc = "completion"
  /\ openaiCalls' = Append(openaiCalls, "completion")
  /\ \E kind \in ErrorKinds : promptStatus' = ErrorStatus(kind)
  /\ promptPc' = "responded"
  /\ UNCHANGED <<body, numImages, userAnalysis, clothingAnalysis, parseCall>>
  /\ UNCHANGED outsidePrompt

\* ======================================================================
\* POST /api/generate-try-on
\* ======================================================================
MaxPrompts == 3          \* the prompts array of a body has up to MaxPrompts entries

\* the entries of a prompts array
PromptValues == {JsString(<<"a">>), JsString(<<"b">>), JsString(<<>>), JsNull}

RECURSIVE PromptArrays(_)
PromptArrays(n) ==
  IF n = 0 THEN {<<>>}
  ELSE LET shorter == PromptArrays(n - 1)
       IN shorter \cup {Append(a, v) : a \in shorter, v \in PromptValues}

TryOnBodies ==
  [prompts : {[kind |-> "missing", items |-> <<>>], [kind |-> "notArray", items |-> <<>>]}
             \cup {[kind |-> "array", items |-> a] : a \in PromptArrays(MaxPrompts)},
   image_urls : {"missing", "notArray", "empty", "nonEmpty"},
   image_count : ImageCountValues,
   user_image : BOOLEAN]

\* lines 176-196: TRUE when the middleware calls next()
validateTryOnRequest(b) ==
  /\ b.prompts.kind = "array" /\ b.prompts.items # <<>>
  /\ b.image_urls = "nonEmpty"
  /\ ~ImageCountRejected(b.image_count)
  /\ b.user_image

TryOnReceived ==
  /\ tryOnBody \in TryOnBodies
  /\ tryOnPc = "received" /\ tryOnStatus = 0 /\ tryOnNumImages = 0
  /\ finalPrompts = <<>> /\ imageIndex = 0 /\ replicateCalls = <<>>

\* line 776: the middleware runs before the handler
ValidateTryOnRequest ==
  /\ tryOnPc = "received"
  /\ IF validateTryOnRequest(tryOnBody)
     THEN tryOnPc' = "handler" /\ UNCHANGED tryOnStatus
     ELSE tryOnPc' = "responded" /\ tryOnStatus' = 400
  /\ UNCHANGED <<tryOnBody, tryOnNumImages, finalPrompts, imageIndex, replicateCalls>>
  /\ UNCHANGED outsideTryOn

\* lines 778-806: the second check, numImages, finalPrompts, results = []
GenerateTryOnBegin ==
  /\ tryOnPc = "handler"
  /\ IF tryOnBody.prompts.kind = "missing" \/ tryOnBody.image_urls # "nonEmpty"
     THEN /\ tryOnPc' = "responded" /\ tryOnStatus' = 400
          /\ UNCHANGED <<tryOnNumImages, finalPrompts, imageIndex>>
     ELSE LET n == ClampImageCount(IF tryOnBody.image_count = JsUndefined
                                   THEN JsNumber(IntegerNumber(1))
                                   ELSE tryOnBody.image_count)
              promptArray == IF tryOnBody.prompts.kind = "array"
                             THEN tryOnBody.prompts.items
                             ELSE <<JsString(<<"a">>)>>
          IN /\ tryOnNumImages' = n
             /\ finalPrompts' = Slice(promptArray, n.int)
             /\ imageIndex' = 0
             /\ tryOnPc' = "loop"
             /\ UNCHANGED tryOnStatus
  /\ UNCHANGED <<tryOnBody, replicateCalls>>
  /\ UNCHANGED outsideTryOn

\* array[k], counted from 0; undefined past the end
ElementAt(array, k) == IF k < Len(array) THEN array[k + 1] ELSE JsUndefined

\* mutant: the fallback is the last prompt
PromptForLast(array, k) ==
  IF Truthy(ElementAt(array, k)) THEN ElementAt(array, k) ELSE ElementAt(array, Len(array) - 1)

\* mutant: every image is generated with the first prompt
PromptForFirst(array, k) == ElementAt(array, 0)

\* line 809: finalPrompts[i] || finalPrompts[0]
PromptFor(array, k) ==
  IF Truthy(ElementAt(array, k)) THEN ElementAt(array, k) ELSE ElementAt(array, 0)

\* mutant: the next call is issued without waiting for this one
IssueImageCallUnawaited ==
  /\ tryOnPc = "loop"
  /\ imageIndex < tryOnNumImages.int
  /\ LET prompt == PromptFor(finalPrompts, imageIndex)
     IN IF prompt.type # "string"
        THEN /\ tryOnStatus' = ErrorStatus("other")
             /\ tryOnPc' = "responded"
             /\ UNCHANGED <<replicateCalls, imageIndex>>
        ELSE /\ replicateCalls' = Append(replicateCalls,
                  [index |-> imageIndex, prompt |-> prompt, state |-> "pending"])
             /\ imageIndex' = imageIndex + 1
             /\ UNCHANGED <<tryOnPc, tryOnStatus>>
  /\ UNCHANGED <<tryOnBody, tryOnNumImages, finalPrompts>>
  /\ UNCHANGED outsideTryOn

\* lines 808-819: the loop test, the prompt of this image, prompt.substring
\* (a TypeError for a prompt that is no string) and replicate.run
IssueImageCall ==
  /\ tryOnPc = "loop"
  /\ imageIndex < tryOnNumImages.int
  /\ LET prompt == PromptFor(finalPrompts, imageIndex)
     IN IF prompt.type # "string"
        THEN /\ tryOnStatus' = ErrorStatus("other")
             /\ tryOnPc' = "responded"
             /\ UNCHANGED replicateCalls
        ELSE /\ replicateCalls' = Append(replicateCalls,
                  [index |-> imageIndex, prompt |-> prompt, state |-> "pending"])
             /\ tryOnPc' = "awaiting"
             /\ UNCHANGED tryOnStatus
  /\ UNCHANGED <<tryOnBody, tryOnNumImages, finalPrompts, imageIndex>>
  /\ UNCHANGED outsideTryOn

Settle(calls, state) == [calls EXCEPT ![Len(calls)].state = state]

\* lines 814-834: the awaited call returns; results.push and i++
ImageCallSucceeds ==
  /\ tryOnPc = "awaiting"
  /\ replicateCalls' = Settle(replicateCalls, "ok")
  /\ imageIndex' = imageIndex + 1
  /\ tryOnPc' = "loop"
  /\ UNCHANGED <<tryOnBody, tryOnStatus, tryOnNumImages, finalPrompts>>
  /\ UNCHANGED outsideTryOn

\* mutant: the loop goes on after a failed call and issues it again
ImageCallFailsRetried ==
  /\ tryOnPc = "awaiting"
  /\ replicateCalls' = Settle(replicateCalls, "failed")
  /\ tryOnPc' = "loop"
  /\ UNCHANGED <<tryOnBody, tryOnStatus, tryOnNumImages, finalPrompts, imageIndex>>
  /\ UNCHANGED outsideTryOn

\* lines 862-882: the awaited call throws; the catch block answers
ImageCallFails ==
  /\ tryOnPc = "awaiting"
  /\ replicateCalls' = Settle(replicateCalls, "failed")
  /\ \E kind \in ErrorKinds : tryOnStatus' = ErrorStatus(kind)
  /\ tryOnPc' = "responded"
  /\ UNCHANGED <<tryOnBody, tryOnNumImages, finalPrompts, imageIndex>>
  /\ UNCHANGED outsideTryOn

\* lines 837-860: the loop is over; res.json(response)
TryOnRespond ==
  /\ tryOnPc = "loop"
  /\ ~(imageIndex < tryOnNumImages.int)
  /\ tryOnStatus' = 200
  /\ tryOnPc' = "responded"
  /\ UNCHANGED <<tryOnBody, tryOnNumImages, finalPrompts, imageIndex, replicateCalls>>
  /\ UNCHANGED outsideTryOn

\* ----------------------------------------------------- the two endpoints
ServerInit ==
  /\ ParserIdle /\ SynthIdle /\ CleanIdle /\ ClientLoaded
  /\ \/ PromptReceived /\ TryOnIdle
     \/ PromptIdle /\ TryOnReceived

ServerNext ==
  \/ ValidatePromptRequest
  \/ GeneratePromptBegin
  \/ AnalyzeUserPhoto \/ AnalyzeUserPhotoFails
  \/ AnalyzeClothing \/ AnalyzeClothingFails
  \/ MainCompletion \/ MainCompletionFails
  \/ ValidateTryOnRequest
  \/ GenerateTryOnBegin
  \/ IssueImageCall
  \/ ImageCallSucceeds \/ ImageCallFails
  \/ TryOnRespond

ServerSpec == ServerInit /\ [][ServerNext]_vars

\* ------------------------------------------------------------ properties
IsImageCount(x) == ~x.nan /\ ~x.neg /\ ~x.frac /\ x.int \in 1..MaxImageCount

\* C14: whatever imageCount the body of a request to /api/generate-prompt
\* carries, the count passed to parseMultiplePrompts is an integer in 1..5.
CountPassedInRange == parseCall # <<>> => IsImageCount(parseCall[1])

NonNumericCountDefaultsToOne ==
  /\ parseCall # <<>>
  /\ body.imageCount = JsString(<<"a", "b", "c">>)
  /\ parseCall[1] = IntegerNumber(1)

\* the value, read as a number, lies between 1 and 5
CountInRange(v) ==
  /\ v.type # "undefined"
  /\ ~ToNumber(v).nan
  /\ ~LessThan(v, 1)
  /\ ~GreaterThan(v, MaxImageCount)

PromptValidated == promptPc \notin {"idle", "received"}
TryOnValidated == tryOnPc \notin {"idle", "received"}

\* C15: both validators answer 400 to every request whose image count is
\* missing or is not a number between 1 and 5.
OutOfRangeCountRejected ==
  /\ (PromptValidated /\ ~CountInRange(body.imageCount)) => promptStatus = 400
  /\ (TryOnValidated /\ ~CountInRange(tryOnBody.image_count)) => tryOnStatus = 400

\* C16: validatePromptRequest answers 400 to every request whose customPrompt
\* is longer than 1000 characters.
LongCustomPromptRejected ==
  (/\ PromptValidated
   /\ body.customPrompt.type = "string"
   /\ body.customPrompt.length > MaxCustomPromptLength)
     => promptStatus = 400

\* C17: the image calls of one request are issued one at a time in index
\* order, call i+1 only after call i has completed, and a request answered
\* with success has issued exactly one call per requested image.
SequentialImageCalls ==
  /\ \A k \in 1..Len(replicateCalls) : replicateCalls[k].index = k - 1
  /\ \A k \in 1..Len(replicateCalls) - 1 : replicateCalls[k].state # "pending"
  /\ tryOnStatus = 200 =>
       /\ Len(replicateCalls) = tryOnNumImages.int
       /\ \A k \in 1..Len(replicateCalls) : replicateCalls[k].state = "ok"

ThreeImagesOneByOne ==
  /\ tryOnStatus = 200
  /\ Len(replicateCalls) = 3

\* C18: each image index is submitted at most once; a failed call is not
\* issued again, no call follows it, and the request is answered with the
\* error.
NoRetryAfterFailure ==
  /\ \A j, k \in 1..Len(replicateCalls) :
       j # k => replicateCalls[j].index # replicateCalls[k].index
  /\ \A k \in 1..Len(replicateCalls) :
       replicateCalls[k].state = "failed" =>
         /\ k = Len(replicateCalls)
         /\ tryOnPc = "responded"
         /\ tryOnStatus \in {ErrorStatus(kind) : kind \in ErrorKinds}

FailedCallEndsRequest ==
  /\ Len(replicateCalls) = 2
  /\ replicateCalls[2].state = "failed"
  /\ tryOnNumImages.int > 2
  /\ tryOnPc = "responded"

\* the calls for image slots that have no prompt of their own
WithoutOwnPrompt(k) == replicateCalls[k].index >= Len(finalPrompts)

\* C19: with fewer prompts than images, every image slot without its own
\* prompt is generated with the last available prompt.
FallbackIsLastPrompt ==
  \A k \in 1..Len(replicateCalls) :
    WithoutOwnPrompt(k) => replicateCalls[k].prompt = finalPrompts[Len(finalPrompts)]

\* C19 as the code has it: every image slot without its own prompt is
\* generated with the first prompt of the request.
FallbackIsFirstPrompt ==
  \A k \in 1..Len(replicateCalls) :
    WithoutOwnPrompt(k) => replicateCalls[k].prompt = tryOnBody.prompts.items[1]

FallbackCallIssued ==
  \E k \in 1..Len(replicateCalls) :
    /\ WithoutOwnPrompt(k)
    /\ Len(finalPrompts) = 2
    /\ finalPrompts[1] = JsString(<<"a">>) /\ finalPrompts[2] = JsString(<<"b">>)

\* the calls for image slots that have a prompt of their own
WithOwnPrompt(k) == replicateCalls[k].index < Len(tryOnBody.prompts.items)
OwnPrompt(k) == tryOnBody.prompts.items[replicateCalls[k].index + 1]

\* C20: the i-th image call carries exactly the i-th prompt of the request,
\* for every i below the prompt count and the image count.
PromptsAttachedOneToOne ==
  \A k \in 1..Len(replicateCalls) :
    WithOwnPrompt(k) => replicateCalls[k].prompt = OwnPrompt(k)

\* C20 as the code has it: the i-th image call carries the i-th prompt when
\* that prompt is a non-empty string, and the first prompt of the request when
\* it is empty or null.
TruthyPromptsAttachedOneToOne ==
  \A k \in 1..Len(replicateCalls) :
    WithOwnPrompt(k) =>
      replicateCalls[k].prompt =
        (IF OwnPrompt(k).type = "string" /\ OwnPrompt(k).str # <<>>
         THEN OwnPrompt(k) ELSE tryOnBody.prompts.items[1])

OwnPromptAttached ==
  \E k \in 1..Len(replicateCalls) :
    /\ replicateCalls[k].index = 1
    /\ replicateCalls[k].prompt = JsString(<<"b">>)
    /\ finalPrompts[1] = JsString(<<"a">>)

\* ======================================================================
\* the stages of parseMultiplePrompts and their shared list
\* ======================================================================
IsPrefix(a, b) == Len(a) <= Len(b) /\ SubSeq(b, 1, Len(a)) = a

StagesInOrder(o) == \A j, k \in 1..Len(o) : j < k => o[j].stage <= o[k].stage

\* C21: a step changes the list only while it holds fewer than expectedCount
\* segments, and only by appending; a full list is never changed again, and
\* the segments of an earlier stage precede those of a later stage.
StagesAppendBelowCount ==
  [][/\ IsPrefix(prompts, prompts')
     /\ prompts' # prompts => (Len(prompts) < expectedCount /\ Len(prompts') = Len(prompts) + 1)
     /\ StagesInOrder(origin')]_vars

FullAfterMainContent ==
  /\ Done
  /\ expectedCount = 2
  /\ Len(origin) = 2
  /\ origin[1].stage = 1
  /\ origin[2].stage = 4
  /\ result = prompts

\* ------------------------------------------------- stage 1 as specified
\* a header marker of any of the four kinds begins at p
HeaderAt(s, p) == NumberedHeaderEnd(s, p) # 0 \/ EditingHeaderEnd(s, p) # 0
HeaderEndAt(s, p) ==
  IF NumberedHeaderEnd(s, p) # 0 THEN NumberedHeaderEnd(s, p) ELSE EditingHeaderEnd(s, p)
NextHeader(s, q) == MinOf({r \in q..Len(s) + 1 : r = Len(s) + 1 \/ HeaderAt(s, r)})

\* the blocks the text falls into when it is split at every header marker:
\* each runs from a marker to the next marker or the end
RECURSIVE HeaderBlocksFrom(_, _)
HeaderBlocksFrom(s, p) ==
  IF p > Len(s) THEN <<>>
  ELSE IF HeaderAt(s, p)
    THEN LET n == NextHeader(s, HeaderEndAt(s, p))
         IN <<<<p, n>>>> \o HeaderBlocksFrom(s, n)
  ELSE HeaderBlocksFrom(s, p + 1)
HeaderBlocks(s) == HeaderBlocksFrom(s, 1)

\* C22: stage 1 splits the text at every header marker of the four kinds and
\* adds the cleaned content of each block that is longer than 100 characters
\* and not yet seen.
Stage1SplitsAtEveryHeader ==
  /\ pc = "loop1" => parts = HeaderBlocks(promptText)
  /\ considered.stage = 1 =>
       (considered.accepted <=> (Substantial(considered.prompt) /\ ~considered.duplicate))

\* ------------------------------------------------- stage 3 as specified
\* a line begins at q with an integer, a period and white space
EnumeratorLineAt(s, q) == NumberedAt(s, q) # 0 /\ (q = 1 \/ s[q - 1] = "\n")
NextEnumeratorLine(s, q) ==
  MinOf({r \in q..Len(s) + 1 : r = Len(s) + 1 \/ EnumeratorLineAt(s, r)})

\* the enumerated items: each runs from an enumerator line to the next one
\* or the end
RECURSIVE EnumeratedItemsFrom(_, _)
EnumeratedItemsFrom(s, p) ==
  IF p > Len(s) THEN <<>>
  ELSE IF EnumeratorLineAt(s, p)
    THEN LET n == NextEnumeratorLine(s, p + 1)
         IN <<<<p, n>>>> \o EnumeratedItemsFrom(s, n)
  ELSE EnumeratedItemsFrom(s, p + 1)
EnumeratedItems(s) == EnumeratedItemsFrom(s, 1)

Stage3Starts == pc = "loop3" /\ i = 2 /\ Len(prompts) < expectedCount

\* C23: the candidates of stage 3 are the chunks that begin at the enumerator
\* lines of the text, the first enumerated item included; only the text
\* before the first enumerator is skipped.
Stage3CandidatesAreEnumeratedItems ==
  Stage3Starts => SubSeq(parts, 2, Len(parts)) = EnumeratedItems(promptText)

\* ------------------------------------------------- stage 2 as specified
\* the text after each header block's marker, up to the next marker
MarkerContents(s) ==
  [k \in 1..Len(HeaderBlocks(s)) |->
     <<HeaderEndAt(s, HeaderBlocks(s)[k][1]), HeaderBlocks(s)[k][2]>>]

NextHashMarker(s, q) ==
  MinOf({r \in q..Len(s) + 1 : r = Len(s) + 1 \/ HashPromptHeaderEnd(s, r) # 0})

\* the text after each "### Prompt N:" marker, up to the next such marker
RECURSIVE HashSectionsFrom(_, _)
HashSectionsFrom(s, p) ==
  IF p > Len(s) THEN <<>>
  ELSE IF HashPromptHeaderEnd(s, p) # 0
    THEN LET e == HashPromptHeaderEnd(s, p)
             n == NextHashMarker(s, e)
         IN <<<<e, n>>>> \o HashSectionsFrom(s, n)
  ELSE HashSectionsFrom(s, p + 1)
HashSections(s) == HashSectionsFrom(s, 1)

Stage2Starts == pc = "loop2" /\ i = 2 /\ Len(prompts) < expectedCount

\* C24: stage 2 splits the text at every header marker, skips the preamble
\* before the first marker and takes the text between two consecutive markers
\* as one candidate under the length and duplicate filter.
Stage2SplitsAtEveryMarker ==
  /\ Stage2Starts => SubSeq(parts, 2, Len(parts)) = MarkerContents(promptText)
  /\ considered.stage = 2 =>
       (considered.accepted <=> (Substantial(considered.prompt) /\ ~considered.duplicate))

\* C24 as the code has it: the markers stage 2 splits at are the
\* "### Prompt N:" markers only.
Stage2SplitsAtHashMarkers ==
  /\ Stage2Starts =>
       /\ parts[1] = <<1, NextHashMarker(promptText, 1)>>
       /\ SubSeq(parts, 2, Len(parts)) = HashSections(promptText)
  /\ considered.stage = 2 =>
       (considered.accepted <=> (Substantial(considered.prompt) /\ ~considered.duplicate))

PreambleAndTwoSections ==
  /\ Stage2Starts
  /\ Len(parts) = 3
  /\ parts[1][2] > 1
  /\ HashPromptHeaderEnd(promptText, parts[1][2]) # 0

\* ======================================================================
\* parseMultiplePrompts run to completion
\* ======================================================================
TerminationInputs ==
  { <<>>, <<"y">>, <<"wa">>, ImageHeader,
    HashHeader \o <<"wa">>,
    <<"y">> \o Enumerator(1) \o <<"wa">>,
    <<"wa", "\n", "\n", "wb">>,
    createPromptVariation(<<>>, 2) }

TerminationInit ==
  /\ promptText \in TerminationInputs
  /\ expectedCount \in 1..MaxImageCount
  /\ pc = "start"
  /\ prompts = <<>>
  /\ seenPrompts = {}
  /\ parts = <<>>
  /\ i = 1
  /\ stoppedOnDuplicate = FALSE
  /\ result = <<>>
  /\ origin = <<>>
  /\ considered = NoCandidate
  /\ earlier = <<>>
  /\ SynthIdle
  /\ CleanIdle
  /\ ServerIdle
  /\ ClientLoaded

\* the function is synchronous: the engine takes its next step as long as
\* there is one
TerminationSpec == TerminationInit /\ [][Next]_vars /\ WF_vars(Next)

\* iterations of the padding loop so far: those that appended and the one
\* that left the loop at a repeated variation
PadIterations ==
  Cardinality({k \in 1..Len(origin) : origin[k].stage = 6})
    + (IF stoppedOnDuplicate THEN 1 ELSE 0)

\* C25: parseMultiplePrompts returns on every input, and its padding loop
\* runs at most expectedCount iterations: each appends a new variation or
\* leaves the loop at the first repeated one.
ParserTerminates == [](PadIterations <= expectedCount) /\ <>Done

PaddingLeftAtRepeat ==
  /\ Done
  /\ stoppedOnDuplicate
  /\ expectedCount = MaxImageCount
  /\ PadIterations = 1

\* ======================================================================
\* the accumulated list never exceeds the requested count
\* ======================================================================
\* C26: at every point of a run the accumulated list holds at most
\* expectedCount segments, so the final slice(0, expectedCount) returns the
\* whole list and drops nothing.
NeverMoreThanRequested ==
  /\ Len(prompts) <= expectedCount
  /\ Done => result = prompts

\* a list filled to the requested count by extraction and padding is returned whole
FilledListReturnedWhole ==
  /\ Done
  /\ expectedCount = 3
  /\ Len(prompts) = 3
  /\ origin[1].stage < 6
  /\ origin[3].stage = 6
  /\ result = prompts

\* ======================================================================
\* server.js: the older parseMultiplePrompts
\* ======================================================================
\* server.js lines 398-401, 413-416, 432-435, 449-452:
\* if (prompt.length > 100) prompts.push(prompt)
LegacyAdd(stage, candidate, range) ==
  \E prompt \in {candidate} :
  LET accepted == Substantial(prompt)
  IN /\ considered' = [stage |-> stage, prompt |-> prompt,
                        duplicate |-> FALSE, accepted |-> accepted]
     /\ IF accepted
        THEN /\ prompts' = Append(prompts, prompt)
             /\ origin' = Append(origin, [stage |-> stage, lo |-> range[1], hi |-> range[2]])
        ELSE UNCHANGED <<prompts, origin>>
     /\ UNCHANGED seenPrompts

\* server.js line 386: the structured match
LegacyStage1Begin ==
  /\ pc = "start"
  /\ parts' = StructuredPrompts(promptText)
  /\ i' = 1
  /\ pc' = "loop1"
  /\ UNCHANGED outsideCall
  /\ UNCHANGED <<promptText, expectedCount, prompts, seenPrompts, stoppedOnDuplicate,
                 result, origin, considered>>

\* server.js lines 390-402: one iteration over structuredPrompts
LegacyStage1Step ==
  /\ pc = "loop1"
  /\ LoopCondition
  /\ LegacyAdd(1, CleanSegment(Part(i)), parts[i])
  /\ i' = i + 1
  /\ UNCHANGED outsideCall
  /\ UNCHANGED <<promptText, expectedCount, pc, parts, stoppedOnDuplicate, result>>

\* server.js lines 406-409: split by numbered items, loop from index 1
LegacyStage3Begin ==
  /\ pc = "loop1"
  /\ ~LoopCondition
  /\ IF Len(prompts) < expectedCount
     THEN parts' = NumberedSplit(promptText)
     ELSE parts' = <<>>
  /\ i' = 2
  /\ pc' = "loop3"
  /\ UNCHANGED outsideCall
  /\ UNCHANGED <<promptText, expectedCount, prompts, seenPrompts, stoppedOnDuplicate,
                 result, origin, considered>>

\* server.js lines 410-416: one iteration over numberedSplit, the item only trimmed
LegacyStage3Step ==
  /\ pc = "loop3"
  /\ LoopCondition
  /\ LegacyAdd(3, Trim(Part(i)), parts[i])
  /\ i' = i + 1
  /\ UNCHANGED outsideCall
  /\ UNCHANGED <<promptText, expectedCount, pc, parts, stoppedOnDuplicate, result>>

\* server.js lines 422-436: the main content as a single prompt
LegacyStage4 ==
  /\ pc = "loop3"
  /\ ~LoopCondition
  /\ IF Len(prompts) < expectedCount
     THEN LegacyAdd(4, CleanMainContent(promptText), <<1, Len(promptText) + 1>>)
     ELSE UNCHANGED <<prompts, seenPrompts, origin, considered>>
  /\ pc' = "stage5"
  /\ UNCHANGED outsideCall
  /\ UNCHANGED <<promptText, expectedCount, parts, i, stoppedOnDuplicate, result>>

\* server.js lines 439-441: split by double line breaks, loop from index 0
LegacyStage5Begin ==
  /\ pc = "stage5"
  /\ IF Len(prompts) < expectedCount
     THEN parts' = ParagraphSplit(promptText)
     ELSE parts' = <<>>
  /\ i' = 1
  /\ pc' = "loop5"
  /\ UNCHANGED outsideCall
  /\ UNCHANGED <<promptText, expectedCount, prompts, seenPrompts, stoppedOnDuplicate,
                 result, origin, considered>>

\* server.js lines 442-453: one iteration over paragraphSplit
LegacyStage5Step ==
  /\ pc = "loop5"
  /\ LoopCondition
  /\ LegacyAdd(5, Then(StripMarkdown, Then(Trim, Part(i))), parts[i])
  /\ i' = i + 1
  /\ UNCHANGED outsideCall
  /\ UNCHANGED <<promptText, expectedCount, pc, parts, stoppedOnDuplicate, result>>

\* the paragraph loop is left
LegacyStage5End ==
  /\ pc = "loop5"
  /\ ~LoopCondition
  /\ pc' = "pad"
  /\ UNCHANGED outsideCall
  /\ UNCHANGED <<promptText, expectedCount, prompts, seenPrompts, parts, i,
                 stoppedOnDuplicate, result, origin, considered>>

\* server.js lines 457-462: one iteration of the padding loop, which pushes
\* every variation
LegacyPadStep ==
  /\ pc = "pad"
  /\ PadCondition(prompts, expectedCount)
  /\ LET basePrompt == IF prompts # <<>> /\ prompts[1] # <<>> THEN prompts[1] ELSE promptText
         variation == createPromptVariationLegacy(basePrompt, Len(prompts) + 1)
     IN /\ prompts' = Append(prompts, variation)
        /\ origin' = Append(origin, [stage |-> 6, lo |-> 0, hi |-> 0])
  /\ UNCHANGED outsideCall
  /\ UNCHANGED <<promptText, expectedCount, pc, parts, i, result, considered,
                 seenPrompts, stoppedOnDuplicate>>

\* server.js line 465: return prompts.slice(0, expectedCount)
LegacyReturn ==
  /\ pc = "pad"
  /\ ~PadCondition(prompts, expectedCount)
  /\ result' = Slice(prompts, expectedCount)
  /\ pc' = "done"
  /\ UNCHANGED outsideCall
  /\ UNCHANGED <<promptText, expectedCount, prompts, seenPrompts, parts, i,
                 stoppedOnDuplicate, origin, considered>>

LegacyNext ==
  \/ LegacyStage1Begin \/ LegacyStage1Step
  \/ LegacyStage3Begin \/ LegacyStage3Step
  \/ LegacyStage4
  \/ LegacyStage5Begin \/ LegacyStage5Step \/ LegacyStage5End
  \/ LegacyPadStep
  \/ LegacyReturn

LegacySpec == Init /\ [][LegacyNext]_vars

\* C27: the older parser returns exactly expectedCount segments for every
\* text and every expectedCount in 1..5; its padding pushes every variation.
LegacyReturnsExactCount ==
  pc = "done" => (expectedCount \in 1..MaxImageCount /\ Len(result) = expectedCount)

\* a text kept twice by the extraction stages and padded up to five
LegacyPaddedToFive ==
  /\ pc = "done"
  /\ expectedCount = MaxImageCount
  /\ Len(result) = MaxImageCount
  /\ origin[1].stage < 6
  /\ result[2] = result[1]
  /\ origin[MaxImageCount].stage = 6
  /\ result[MaxImageCount] = createPromptVariationLegacy(result[1], MaxImageCount)

\* ======================================================================
\* requests the validation middleware turns away
\* ======================================================================
PromptRejected == promptPc # "idle" /\ ~validatePromptRequest(body)
TryOnRejected == tryOnPc # "idle" /\ ~validateTryOnRequest(tryOnBody)

\* C28: a request to either endpoint that fails a check of its validation
\* middleware is answered once, with 400, and no vision, completion or
\* image-generation call is ever issued for it.
RejectedRequestCallsNothing ==
  /\ [](PromptRejected =>
          /\ openaiCalls = <<>> /\ parseCall = <<>>
          /\ promptPc \in {"received", "responded"}
          /\ promptPc = "responded" <=> promptStatus = 400
          /\ promptPc = "received" <=> promptStatus = 0)
  /\ [](TryOnRejected =>
          /\ replicateCalls = <<>>
          /\ tryOnPc \in {"received", "responded"}
          /\ tryOnPc = "responded" <=> tryOnStatus = 400
          /\ tryOnPc = "received" <=> tryOnStatus = 0)
  /\ [][(PromptRejected /\ promptPc = "responded") => UNCHANGED promptVars]_vars
  /\ [][(TryOnRejected /\ tryOnPc = "responded") => UNCHANGED tryOnVars]_vars

\* a request with a photo and clothing images turned away for another field
RejectedPromptAnswered ==
  /\ PromptRejected
  /\ body.userImageData
  /\ body.clothingImages = "nonEmpty"
  /\ promptPc = "responded"
  /\ promptStatus = 400
  /\ openaiCalls = <<>>

\* ======================================================================
\* failures of the analysis calls
\* ======================================================================
LastCall == IF openaiCalls = <<>> THEN "none" ELSE openaiCalls[Len(openaiCalls)]
ErrorStatuses == {ErrorStatus(kind) : kind \in ErrorKinds}

\* C29: a failed user-photo or clothing analysis does not fail the request:
\* the request is answered only after the main completion call was issued,
\* and an error status is answered only when that call failed.
AnalysisFailureTolerated ==
  /\ (userAnalysis = "unavailable" \/ clothingAnalysis = "unavailable") =>
        /\ promptStatus # 0 <=> promptPc = "responded"
        /\ promptPc = "responded" => LastCall = "completion"
  /\ promptStatus \in ErrorStatuses => (LastCall = "completion" /\ parseCall = <<>>)

\* both analyses failed and the request was answered with the prompts
BothAnalysesFailedAnswered ==
  /\ userAnalysis = "unavailable"
  /\ clothingAnalysis = "unavailable"
  /\ openaiCalls = <<"userAnalysis", "clothingAnalysis", "completion">>
  /\ promptStatus = 200
  /\ parseCall # <<>>

\* ======================================================================
\* the browser client: the try-on button
\* ======================================================================
MaxClothing == 3         \* clothing images held or being read, at most

Files == {"f1", "f2"}
\* what a file input hands over: event.target.files
FileLists == {<<>>, <<"f1">>, <<"f2">>, <<"f1", "f2">>}
\* what a drop hands over: e.dataTransfer.files, "doc" being no image
DropLists == {<<>>, <<"doc">>, <<"f1">>, <<"doc", "f2">>, <<"f2", "f1">>}
\* the trimmed value of a URL field: empty, no URL, or a URL
UrlInputs == {"", "no url", "u1"}

\* isValidUrl (lines 345-352): new URL(string) does not throw
isValidUrl(string) == string = "u1"

\* file.type.startsWith('image/')
IsImageFile(file) == file \in Files

\* e.target.result of a FileReader that read the file
DataUrl(file) == IF file = "f1" THEN "data:f1" ELSE "data:f2"

\* lines 354-374: the value updateTryOnButton gives tryOnBtn.disabled
updateTryOnButton(file, data, images) ==
  LET hasUserImage == file # "null" \/ data # "null"
      hasClothingImages == Len(images) > 0
  IN ~(hasUserImage /\ hasClothingImages)

\* array.splice(index, 1), index counted from 0
Splice(array, index) ==
  IF index < Len(array)
  THEN SubSeq(array, 1, index) \o SubSeq(array, index + 2, Len(array))
  ELSE array

\* array.includes(item)
Includes(array, item) == \E k \in 1..Len(array) : array[k] = item

\* lines 184-190 and 333-338: files.forEach(file => { if (!clothingFiles.includes(file))
\* { clothingFiles.push(file); addClothingImageFromFile(file) } })
RECURSIVE NewFiles(_, _)
NewFiles(files, known) ==
  IF files = <<>> THEN <<>>
  ELSE IF Includes(known, Head(files)) THEN NewFiles(Tail(files), known)
  ELSE <<Head(files)>> \o NewFiles(Tail(files), Append(known, Head(files)))

HasRoom(count) == Len(clothingImages) + Len(pendingReaders) + count <= MaxClothing

\* lines 130-138: a file is chosen for the user image, or the dialog is left
handleUserImageUpload ==
  /\ lastEvent' = "handleUserImageUpload"
  /\ \E file \in Files \cup {"null"} :
       IF file # "null"
       THEN /\ userImageFile' = file
            /\ disabled' = updateTryOnButton(file, userImageData, clothingImages)
       ELSE UNCHANGED <<userImageFile, disabled>>
  /\ UNCHANGED <<userImageData, clothingImages, clothingFiles, pendingReaders>>
  /\ UNCHANGED outsideClient

\* lines 140-152: input in the user image URL field
handleUserImageUrlInput ==
  /\ lastEvent' = "handleUserImageUrlInput"
  /\ \E url \in UrlInputs :
       IF url # "" /\ isValidUrl(url)
       THEN /\ userImageData' = url
            /\ disabled' = updateTryOnButton(userImageFile, url, clothingImages)
       ELSE UNCHANGED <<userImageData, disabled>>
  /\ UNCHANGED <<userImageFile, clothingImages, clothingFiles, pendingReaders>>
  /\ UNCHANGED outsideClient

\* lines 170-178
removeUserImagePreview ==
  /\ lastEvent' = "removeUserImagePreview"
  /\ userImageFile' = "null"
  /\ userImageData' = "null"
  /\ disabled' = updateTryOnButton("null", "null", clothingImages)
  /\ UNCHANGED <<clothingImages, clothingFiles, pendingReaders>>
  /\ UNCHANGED outsideClient

\* lines 300-312: a drop on the user upload area takes the first image file
UserImageDrop ==
  /\ lastEvent' = "UserImageDrop"
  /\ \E files \in DropLists :
       LET images == SelectSeq(files, IsImageFile)
       IN IF images # <<>>
          THEN /\ userImageFile' = Head(images)
               /\ disabled' = updateTryOnButton(Head(images), userImageData, clothingImages)
          ELSE UNCHANGED <<userImageFile, disabled>>
  /\ UNCHANGED <<userImageData, clothingImages, clothingFiles, pendingReaders>>
  /\ UNCHANGED outsideClient

\* lines 181-192 and 204-214: every file not yet known gets a FileReader;
\* the button is left alone until a reader calls back
handleClothingFileUpload ==
  /\ lastEvent' = "handleClothingFileUpload"
  /\ \E files \in FileLists :
       LET added == NewFiles(files, clothingFiles)
       IN /\ HasRoom(Len(added))
          /\ clothingFiles' = clothingFiles \o added
          /\ pendingReaders' = pendingReaders \o added
  /\ UNCHANGED <<userImageFile, userImageData, clothingImages, disabled>>
  /\ UNCHANGED outsideClient

\* lines 327-341: a drop on the clothing upload area, image files only
ClothingDrop ==
  /\ lastEvent' = "ClothingDrop"
  /\ \E files \in DropLists :
       LET added == NewFiles(SelectSeq(files, IsImageFile), clothingFiles)
       IN /\ HasRoom(Len(added))
          /\ clothingFiles' = clothingFiles \o added
          /\ pendingReaders' = pendingReaders \o added
  /\ UNCHANGED <<userImageFile, userImageData, clothingImages, disabled>>
  /\ UNCHANGED outsideClient

\* mutant: the button is updated when the files are handed over, not when a
\* reader calls back
ReaderOnloadNoUpdate ==
  /\ lastEvent' = "ReaderOnload"
  /\ \E k \in 1..Len(pendingReaders) :
       /\ clothingImages' = Append(clothingImages, DataUrl(pendingReaders[k]))
       /\ pendingReaders' = Splice(pendingReaders, k - 1)
  /\ UNCHANGED <<userImageFile, userImageData, clothingFiles, disabled>>
  /\ UNCHANGED outsideClient

\* lines 206-212: reader.onload of one of the pending readers, in any order
ReaderOnload ==
  /\ lastEvent' = "ReaderOnload"
  /\ \E k \in 1..Len(pendingReaders) :
       /\ clothingImages' = Append(clothingImages, DataUrl(pendingReaders[k]))
       /\ pendingReaders' = Splice(pendingReaders, k - 1)
       /\ disabled' = updateTryOnButton(userImageFile, userImageData, clothingImages')
  /\ UNCHANGED <<userImageFile, userImageData, clothingFiles>>
  /\ UNCHANGED outsideClient

\* lines 205-213: the reader fails; no onerror handler is set, nothing runs
ReaderError ==
  /\ lastEvent' = "ReaderError"
  /\ \E k \in 1..Len(pendingReaders) : pendingReaders' = Splice(pendingReaders, k - 1)
  /\ UNCHANGED <<userImageFile, userImageData, clothingImages, clothingFiles, disabled>>
  /\ UNCHANGED outsideClient

\* lines 194-202 and 216-220: input in the clothing URL field
handleClothingUrlInput ==
  /\ lastEvent' = "handleClothingUrlInput"
  /\ \E url \in UrlInputs :
       IF url # "" /\ isValidUrl(url) /\ ~Includes(clothingImages, url)
       THEN /\ HasRoom(1)
            /\ clothingImages' = Append(clothingImages, url)
            /\ disabled' = updateTryOnButton(userImageFile, userImageData, clothingImages')
       ELSE UNCHANGED <<clothingImages, disabled>>
  /\ UNCHANGED <<userImageFile, userImageData, clothingFiles, pendingReaders>>
  /\ UNCHANGED outsideClient

\* lines 245-260: the remove button of the preview at index
removeClothingImage ==
  /\ lastEvent' = "removeClothingImage"
  /\ \E index \in 0..MaxClothing :
       IF index >= 0 /\ index < Len(clothingImages)
       THEN /\ clothingImages' = Splice(clothingImages, index)
            /\ clothingFiles' = Splice(clothingFiles, index)
            /\ disabled' = updateTryOnButton(userImageFile, userImageData, clothingImages')
       ELSE UNCHANGED <<clothingImages, clothingFiles, disabled>>
  /\ UNCHANGED <<userImageFile, userImageData, pendingReaders>>
  /\ UNCHANGED outsideClient

ClientInit == ParserIdle /\ SynthIdle /\ CleanIdle /\ ServerIdle /\ ClientLoaded

ClientNext ==
  \/ handleUserImageUpload
  \/ handleUserImageUrlInput
  \/ removeUserImagePreview
  \/ UserImageDrop
  \/ handleClothingFileUpload
  \/ ClothingDrop
  \/ ReaderOnload
  \/ ReaderError
  \/ handleClothingUrlInput
  \/ removeClothingImage

ClientSpec == ClientInit /\ [][ClientNext]_vars

\* C30: once no FileReader callback is pending, the try-on button is enabled
\* exactly when a user image (file or URL) is set and clothingImages is not
\* empty, whatever upload, URL, drop and remove events came before.
ButtonFollowsImages ==
  pendingReaders = <<>> =>
    (~disabled <=> ((userImageFile # "null" \/ userImageData # "null")
                     /\ clothingImages # <<>>))

\* the button enabled by a reader's callback, the user image given by URL only
ButtonEnabledByReader ==
  /\ lastEvent = "ReaderOnload"
  /\ pendingReaders = <<>>
  /\ ~disabled
  /\ userImageFile = "null"
  /\ userImageData = "u1"
  /\ clothingImages = <<DataUrl("f1")>>

====
